---- MODULE Spec2Model ----
(***************************************************************************)
(* A model of the username scanning engine of reconoscope:                 *)
(*   - WMNCollection / WMNRuleSet / try_parse_wmn_json  (wmn/_collection)  *)
(*   - _WMNStreamReader.check_stream and check_wmn_site (wmn/_scanner)     *)
(*   - retry_policy.call_with_retries                   (http/_retry)      *)
(*   - _async_wmn_worker_process and its run_one tasks  (wmn/_scanner)     *)
(*   - UsernameScanner.check_username                   (wmn/_scanner)     *)
(* Each component has its own initial predicate, next-state relation and   *)
(* specification; the variables of the components a specification does not *)
(* exercise stay at their idle values.                                     *)
(***************************************************************************)
EXTENDS Integers, Sequences, FiniteSets, TLC

VARIABLES
    \* ---- WMNCollection ----
    sites,        \* WMNCollection.sites: the raw records still held
    sites0,       \* history: the records the collection was created with
    rule_set,     \* WMNCollection.rule_set (NoRuleSet when None)
    ck_pc,        \* position of the chunkate generator
    ck_size,      \* chunkate's chunk_size argument
    chunk,        \* chunkate's local list `chunk`
    chunks,       \* history: the chunks yielded so far, in order
    \* ---- _WMNStreamReader ----
    rd_pc,        \* position of check_stream: idle, reading, returned, raised
    rd_pos,       \* _pos_identifier: the success marker's bytes (<<>>: none)
    rd_neg,       \* _negative_identifier: the failure marker's bytes
    rd_stream,    \* the chunks aiter_bytes has still to deliver
    rd_body,      \* history: every chunk of the response body
    rd_tail,      \* _tail
    rd_seen_pos,  \* _seen_positive_identifier
    rd_seen_neg,  \* _seen_negative_identifier
    rd_total,     \* total_read
    rd_result,    \* the value check_stream returned
    rd_closed,    \* the response was closed (aclose)
    rd_scanned,   \* history: the bytes of the chunks searched for markers
    rd_reads,     \* history: how many chunks were taken from the stream
    rd_err,       \* the class of the exception that left check_stream
    \* ---- check_wmn_site (one attempt) ----
    pb_pc,        \* idle, built, opened, streaming, resolved, raised
    pb_site,      \* the site's m_code, e_code, e_string and m_string
    pb_status,    \* response.status_code (0: no response yet)
    pb_success,   \* WMNResult.success of the result returned
    pb_err,       \* the class of the exception that left check_wmn_site
    \* ---- retry_policy.call_with_retries ----
    rt,           \* the state of one call_with_retries
    rt_attempts,  \* retry_policy.attempts
    rt_behav,     \* what the wrapped function does on its 1st, 2nd, ... call
    \* ---- _async_wmn_worker_process ----
    wk_pc,        \* idle, gathering (tasks created), returned
    wk_n,         \* len(chunk): the sites of the chunk are 1..wk_n
    wk_conc,      \* concurrency_per_process
    sem_value,    \* the semaphore's free permits
    sem_waiters,  \* the tasks blocked in semaphore.acquire, oldest first
    tk,           \* the run_one task of every site
    wk_results,   \* the list `results`
    \* ---- UsernameScanner.check_username ----
    sc_pc,        \* idle, called, submitting, collecting, returned, raised
    sc_chunk_size,    \* UsernameScanner.chunk_size
    sc_conc,      \* UsernameScanner.concurrency_per_process
    sc_cpu,       \* os.cpu_count() (0: None)
    sc_procs,     \* the max_workers given to ProcessPoolExecutor
    sc_success_only,  \* the success_only argument
    sc_calls,         \* the calls of check_username made with the collection
    fut,          \* one future per submitted chunk: its state and result
    pool_broken,  \* a worker process died: the pool is broken
    sc_done_q,    \* the futures as_completed has still to yield, in order
    sc_all,       \* all_results
    sc_ret,       \* the list check_username returned
    \* ---- ReconoscopeTransport under a redirect-following client ----
    tr_pc,        \* idle, request, inner, rejected, done
    tr_url,       \* request.url of the request in hand
    tr_hops,      \* redirects followed so far
    tr_forwarded, \* the URLs handed to the inner transport, in order
    tr_last,      \* the last verify_http_url call: its argument and outcome
    \* ---- WMNCollection.iter_site_json / producer ----
    it_pc,        \* idle, iter, done, raised
    it_mode,      \* "iter_site_json" or "producer"
    it_discard,   \* the auto_discard argument
    it_idx,       \* the position of the list iterator of _basic_iterator
    it_out,       \* what the pass has yielded so far
    it_before,    \* self.sites when the pass began
    it_passes,    \* the completed passes, in order
    \* ---- WMNRequest.from_site / get_http_stream ----
    rq_pc,        \* idle, called, built, sent
    rq_site,      \* the site: its post_body template and its headers
    rq_account,   \* the account name
    rq_req,       \* the WMNRequest: method, json_payload, content_bytes
    rq_sent,      \* the body argument get_http_stream hands to client.stream
    \* ---- UsernameScanner.__init__ ----
    ct_pc,        \* idle, new, built
    ct_args,      \* the chunk_size and concurrency_per_process arguments
    \* ---- normalize_url ----
    nu_pc,        \* idle, called, done
    nu_account,   \* the account argument, a sequence of characters
    nu_strip,     \* site.options.strip_bad_char (<<>> for None or '')
    nu_url,       \* the URL returned
    \* ---- WMNRuleSet.pre_filter and is_allowed on one record ----
    fl_pc,        \* idle, called, prefiltered, done
    fl_rs,        \* the rule set
    fl_rec,       \* the raw record
    fl_pre,       \* what pre_filter returned
    fl_site,      \* the parsed site, or NoSite
    fl_post       \* what is_allowed returned

collVars == <<sites, sites0, rule_set, ck_pc, ck_size, chunk, chunks>>

readerVars ==
    <<rd_pc, rd_pos, rd_neg, rd_stream, rd_body, rd_tail, rd_seen_pos,
      rd_seen_neg, rd_total, rd_result, rd_closed, rd_scanned, rd_reads,
      rd_err>>

probeVars == <<pb_pc, pb_site, pb_status, pb_success, pb_err>>

retryVars == <<rt, rt_attempts, rt_behav>>

workerVars == <<wk_pc, wk_n, wk_conc, sem_value, sem_waiters, tk, wk_results>>

scanVars ==
    <<sc_pc, sc_chunk_size, sc_conc, sc_cpu, sc_procs, sc_success_only,
      sc_calls, fut, pool_broken, sc_done_q, sc_all, sc_ret>>

transportVars == <<tr_pc, tr_url, tr_hops, tr_forwarded, tr_last>>

iterVars == <<it_pc, it_mode, it_discard, it_idx, it_out, it_before, it_passes>>

requestVars == <<rq_pc, rq_site, rq_account, rq_req, rq_sent>>

ctorVars == <<ct_pc, ct_args>>

urlVars == <<nu_pc, nu_account, nu_strip, nu_url>>

filterVars == <<fl_pc, fl_rs, fl_rec, fl_pre, fl_site, fl_post>>

vars ==
    <<collVars, readerVars, probeVars, retryVars, workerVars, scanVars,
      transportVars, iterVars, requestVars, ctorVars, urlVars, filterVars>>

(***************************************************************************)
(* Bounds of the model.                                                    *)
(***************************************************************************)
MaxSites == 4
MaxChunkSize == 3
MaxBody == 4
MaxPosLen == 3
MaxNegLen == 2
CapBytes == 3
MaxProbeBody == 4
MaxProbeMarker == 1
MaxAttempts == 4
MaxTasks == 3
MaxConc == 2
MaxScanSites == 3
MaxGiven == 3
MaxHops == 2
MaxIterSites == 3
MaxPasses == 2
MaxAccountLen == 3
MaxStripLen == 2
MaxCalls == 2

\* Program constants.
ProbeAttempts == 3
MinConc == 2
MinChunkSize == 2
ProcDivisor == 100
DefaultChunkSize == 100
DefaultConc == 50

(***************************************************************************)
(* Raw site records and parsed sites.                                      *)
(***************************************************************************)
None == "None"

\* dc.fields(WhatsMyNameEntry), in declaration order
EntryFields == <<"name", "uri_check", "e_code", "e_string", "m_string", "cat">>

\* the fields of WhatsMyNameOptions
OptionFields ==
    {"m_code", "uri_pretty", "headers", "post_body", "known",
     "strip_bad_char", "protection"}

Range(s) == {s[i] : i \in 1..Len(s)}

\* A raw record is [id, keys, cat, protection]: `keys` are the keys the dict
\* holds, `cat` the value under "cat", `protection` the list under
\* "protection" (as a set); the values under "post_body" and "known" are
\* non-empty whenever the key is present. `id` is the record's position in
\* the schema and stands for its name.
AllEntryKeys == Range(EntryFields)

RecordKind(k) ==
    CASE k = "get"     -> [keys |-> AllEntryKeys, cat |-> "social", protection |-> {}]
      [] k = "post"    -> [keys |-> AllEntryKeys \cup {"post_body", "headers"},
                           cat |-> "social", protection |-> {}]
      [] k = "prot"    -> [keys |-> AllEntryKeys \cup {"protection", "known"},
                           cat |-> "email", protection |-> {"Captcha"}]
      [] k = "nocode"  -> [keys |-> AllEntryKeys \ {"e_code"}, cat |-> "email",
                           protection |-> {}]
      [] k = "bogus"   -> [keys |-> AllEntryKeys \cup {"bogus"}, cat |-> "social",
                           protection |-> {}]

RecordKinds == {"get", "post", "prot", "nocode", "bogus"}

MkRecord(i, k) ==
    [id |-> i, keys |-> RecordKind(k).keys, cat |-> RecordKind(k).cat,
     protection |-> RecordKind(k).protection]

\* str.lower() on the protection tags in use
Lower(t) == IF t = "Captcha" THEN "captcha" ELSE t

\* dict.get(key) is truthy
Truthy(rec, key) ==
    IF key = "protection" THEN key \in rec.keys /\ rec.protection # {}
    ELSE key \in rec.keys

\* site_json.get('cat', '')
GetCat(rec) == IF "cat" \in rec.keys THEN rec.cat ELSE ""

NoRuleSet == [none |-> TRUE]

DefaultRuleSet ==
    [none |-> FALSE, include_categories |-> {}, exclude_categories |-> {},
     any_known_accounts |-> FALSE, require_protections_any_of |-> {},
     http_get_only |-> FALSE, ignore_protected |-> FALSE]

RuleSets ==
    {NoRuleSet,
     DefaultRuleSet,
     [DefaultRuleSet EXCEPT !.http_get_only = TRUE],
     [DefaultRuleSet EXCEPT !.exclude_categories = {"email"}],
     [DefaultRuleSet EXCEPT !.include_categories = {"email"},
                            !.any_known_accounts = TRUE],
     [DefaultRuleSet EXCEPT !.require_protections_any_of = {"captcha"}],
     [DefaultRuleSet EXCEPT !.ignore_protected = TRUE]}

\* WMNRuleSet.pre_filter(site_json)
pre_filter(rs, rec) ==
    LET cat == GetCat(rec) IN
    IF rs.include_categories # {} /\ cat \notin rs.include_categories THEN FALSE
    ELSE IF rs.exclude_categories # {} /\ cat \in rs.exclude_categories THEN FALSE
    ELSE IF rs.http_get_only /\ Truthy(rec, "post_body") THEN FALSE
    ELSE IF rs.any_known_accounts /\ ~Truthy(rec, "known") THEN FALSE
    ELSE IF rs.ignore_protected /\ Truthy(rec, "protection") THEN FALSE
    ELSE IF rs.require_protections_any_of # {}
         THEN LET protection == IF Truthy(rec, "protection") THEN rec.protection ELSE {}
                  have == {Lower(p) : p \in protection}
              IN  (have \cap rs.require_protections_any_of) # {}
    ELSE TRUE

\* an iterator that passes every record on
Filtered_Never(rs, rec) == FALSE

\* `self.rule_set and not self.rule_set.pre_filter(cur)`: the record is skipped
Filtered(rs, rec) == ~rs.none /\ ~pre_filter(rs, rec)

\* The keys try_parse_wmn_json pops: the entry fields in order, up to the
\* first one the record lacks (KeyError).
RECURSIVE PoppedKeys(_, _)
PoppedKeys(rec, i) ==
    IF i > Len(EntryFields) THEN {}
    ELSE IF EntryFields[i] \notin rec.keys THEN {}
    ELSE {EntryFields[i]} \cup PoppedKeys(rec, i + 1)

NoSite == [none |-> TRUE]

\* try_parse_wmn_json(json_entry): the site (or NoSite, with an error) and
\* the record as the call leaves it.
try_parse_wmn_json(rec) ==
    LET popped == PoppedKeys(rec, 1)
        left == [rec EXCEPT !.keys = rec.keys \ popped]
    IN  IF popped # AllEntryKeys
        THEN [site |-> NoSite, error |-> "missing", rec |-> left]
        ELSE IF ~(left.keys \subseteq OptionFields)
        THEN [site |-> NoSite, error |-> "unexpected", rec |-> left]
        ELSE [site |-> [none |-> FALSE, id |-> rec.id, cat |-> rec.cat,
                        post_body |-> "post_body" \in left.keys,
                        known |-> "known" \in left.keys,
                        protection |-> IF "protection" \in left.keys
                                       THEN rec.protection ELSE {},
                        headers |-> "headers" \in left.keys],
              error |-> None, rec |-> left]

\* WhatsMyNameSite.method
method(site) == IF site.post_body THEN "POST" ELSE "GET"

\* WMNRuleSet.is_allowed(site)
is_allowed(rs, site) ==
    IF rs.include_categories # {} /\ site.cat \notin rs.include_categories THEN FALSE
    ELSE IF rs.exclude_categories # {} /\ site.cat \in rs.exclude_categories THEN FALSE
    ELSE IF rs.http_get_only /\ method(site) # "GET" THEN FALSE
    ELSE IF rs.ignore_protected /\ site.protection # {} THEN FALSE
    ELSE IF rs.require_protections_any_of # {}
         THEN ({Lower(p) : p \in site.protection}
                  \cap rs.require_protections_any_of) # {}
    ELSE TRUE

(***************************************************************************)
(* WMNCollection.chunkate over the destructive iterator.                   *)
(***************************************************************************)
Front(s) == SubSeq(s, 1, Len(s) - 1)
Last(s) == s[Len(s)]

\* create_wmn_collection: the schema's site list and the rule set
InitColl ==
    /\ \E n \in 0..MaxSites : \E kinds \in [1..n -> RecordKinds] :
          sites = [i \in 1..n |-> MkRecord(i, kinds[i])]
    /\ sites0 = sites
    /\ rule_set \in RuleSets
    /\ ck_pc = "idle"
    /\ ck_size = 0
    /\ chunk = <<>>
    /\ chunks = <<>>

IdleColl ==
    /\ sites = <<>>
    /\ sites0 = <<>>
    /\ rule_set = NoRuleSet
    /\ ck_pc = "idle"
    /\ ck_size = 0
    /\ chunk = <<>>
    /\ chunks = <<>>

\* a chunkate that starts its loop whatever the size
ChunkateCall_NoCheck(size) ==
    /\ ck_pc = "idle"
    /\ ck_size' = size
    /\ ck_pc' = "iter"
    /\ chunk' = <<>>
    /\ UNCHANGED <<sites, sites0, rule_set, chunks>>

\* chunkate(chunk_size) up to its loop: the size check
ChunkateCall(size) ==
    /\ ck_pc = "idle"
    /\ ck_size' = size
    /\ ck_pc' = IF size <= 0 THEN "raised" ELSE "iter"
    /\ chunk' = <<>>
    /\ UNCHANGED <<sites, sites0, rule_set, chunks>>

\* One turn of the loop of chunkate over _auto_discard_iterator: pop the last
\* record, pre-filter it (in the iterator and again in chunkate), parse it,
\* append the site and yield the chunk once it is full.
ChunkateStep ==
    /\ ck_pc = "iter"
    /\ sites # <<>>
    /\ LET cur == Last(sites)
           result == try_parse_wmn_json(cur)
           grown == Append(chunk, result.site)
       IN  /\ sites' = Front(sites)
           /\ IF Filtered(rule_set, cur) \/ result.site.none
              THEN UNCHANGED <<chunk, chunks>>
              ELSE IF Len(grown) >= ck_size
              THEN chunks' = Append(chunks, grown) /\ chunk' = <<>>
              ELSE chunk' = grown /\ UNCHANGED chunks
    /\ UNCHANGED <<sites0, rule_set, ck_pc, ck_size>>

\* an end of iteration that forgets the partial chunk
ChunkateFinish_DropsPartial ==
    /\ ck_pc = "iter"
    /\ sites = <<>>
    /\ chunk' = <<>>
    /\ ck_pc' = "done"
    /\ UNCHANGED <<sites, sites0, rule_set, ck_size, chunks>>

\* The iterator is exhausted: yield the last, partial chunk if there is one.
ChunkateFinish ==
    /\ ck_pc = "iter"
    /\ sites = <<>>
    /\ chunks' = IF chunk # <<>> THEN Append(chunks, chunk) ELSE chunks
    /\ chunk' = <<>>
    /\ ck_pc' = "done"
    /\ UNCHANGED <<sites, sites0, rule_set, ck_size>>


(***************************************************************************)
(* Claims about chunkate.                                                  *)
(***************************************************************************)
\* the record holds every required field and no unknown one
ValidRecord(rec) ==
    /\ AllEntryKeys \subseteq rec.keys
    /\ rec.keys \subseteq (AllEntryKeys \cup OptionFields)

RECURSIVE Flatten(_)
Flatten(ss) == IF ss = <<>> THEN <<>> ELSE ss[1] \o Flatten(SubSeq(ss, 2, Len(ss)))

\* The records of the schema that pass the rule set's pre-filter and hold
\* every required field and no unknown one, by id.
KeptIds ==
    {sites0[i].id : i \in {j \in 1..Len(sites0) :
        /\ ~Filtered(rule_set, sites0[j])
        /\ AllEntryKeys \subseteq sites0[j].keys
        /\ sites0[j].keys \subseteq (AllEntryKeys \cup OptionFields)}}

CeilDiv(n, d) == (n + d - 1) \div d

\* C1: for every chunk size s >= 2, once chunkate(s) is exhausted the chunks
\* it yielded partition the N records that pass the pre-filter and parse:
\* every such site is in exactly one chunk and no other site is, there are
\* ceil(N/s) chunks, every chunk but the last holds exactly s sites and the
\* last holds between 1 and s.
C1_ChunkatePartitions ==
    (ck_pc = "done" /\ ck_size >= 2) =>
        LET flat == Flatten(chunks)
            N == Cardinality(KeptIds)
        IN  /\ Len(flat) = N
            /\ {flat[i].id : i \in 1..Len(flat)} = KeptIds
            /\ Len(chunks) = CeilDiv(N, ck_size)
            /\ \A i \in 1..Len(chunks) :
                  IF i < Len(chunks) THEN Len(chunks[i]) = ck_size
                  ELSE Len(chunks[i]) \in 1..ck_size

\* C1 witness: an exhausted chunkate(2) that skipped a record and yielded a
\* full chunk followed by a partial one.
C1_Witness ==
    /\ ck_pc = "done"
    /\ ck_size = 2
    /\ Len(chunks) = 2
    /\ Len(chunks[2]) = 1
    /\ Cardinality(KeptIds) < Len(sites0)

\* C21: chunkate called with a size <= 0 fails before anything is scanned:
\* it raises, yields no chunk, and leaves every record of the collection in
\* place and unparsed, then and ever after.
C21_BadSizeFailsFast ==
    /\ []((ck_pc # "idle" /\ ck_size <= 0) =>
            /\ ck_pc = "raised"
            /\ chunks = <<>>
            /\ chunk = <<>>
            /\ sites = sites0)
    /\ [](ck_pc = "raised" => ck_size <= 0)
    /\ [][ck_pc = "raised" => UNCHANGED collVars]_vars

\* C21 witness: chunkate(-1) has raised on a collection of two or more
\* records with a rule set.
C21_Witness ==
    /\ ck_pc = "raised"
    /\ ck_size = -1
    /\ Len(sites) >= 2
    /\ ~rule_set.none

(***************************************************************************)
(* _WMNStreamReader: the streaming matcher.                                *)
(***************************************************************************)
Bytes == {1, 2}

\* the byte strings of length 0..n
ByteStrings(n) == UNION {[1..k -> Bytes] : k \in 0..n}

\* the ways aiter_bytes can deliver a body of at most n bytes: sequences of
\* non-empty chunks
RECURSIVE Chunkings(_)
Chunkings(n) ==
    IF n = 0 THEN {<<>>}
    ELSE {<<>>} \cup
         {<<c>> \o rest : c \in (ByteStrings(n) \ {<<>>}),
                          rest \in Chunkings(n - 1)}

RECURSIVE TotalLen(_)
TotalLen(cs) == IF cs = <<>> THEN 0 ELSE Len(cs[1]) + TotalLen(Tail(cs))

\* `marker in buffer` on bytes
Contains(buffer, marker) ==
    \E i \in 1..(Len(buffer) - Len(marker) + 1) :
        SubSeq(buffer, i, i + Len(marker) - 1) = marker

Max(a, b) == IF a >= b THEN a ELSE b

\* _need_positive, _need_negative
need_positive == rd_pos # <<>>
need_negative == rd_neg # <<>>

\* _overlap_boundary = max(len(pos), len(neg), 1) - 1
overlap_boundary == Max(Max(Len(rd_pos), Len(rd_neg)), 1) - 1

\* a tail one byte short of what a marker split across chunks needs
KeepTail_OneShort(buffer, k) ==
    IF k > 1
    THEN SubSeq(buffer, Max(1, Len(buffer) - k + 2), Len(buffer))
    ELSE <<>>

\* buffer[-k:] for k > 0, else b''
KeepTail(buffer, k) ==
    IF k > 0
    THEN SubSeq(buffer, Max(1, Len(buffer) - k + 1), Len(buffer))
    ELSE <<>>

\* max_bytes = max_size_mb * _MB_IN_BYTES, scaled down to CapBytes
max_bytes == CapBytes

IdleReader ==
    /\ rd_pc = "idle"
    /\ rd_pos = <<>>
    /\ rd_neg = <<>>
    /\ rd_stream = <<>>
    /\ rd_body = <<>>
    /\ rd_tail = <<>>
    /\ rd_seen_pos = FALSE
    /\ rd_seen_neg = FALSE
    /\ rd_total = 0
    /\ rd_result = FALSE
    /\ rd_closed = FALSE
    /\ rd_scanned = 0
    /\ rd_reads = 0
    /\ rd_err = None

\* _WMNStreamReader.__init__ on a response whose body arrives as `body`,
\* followed by the first lines of check_stream
NewReader(must_contain, must_not_contain, body) ==
    /\ rd_pc' = "reading"
    /\ rd_pos' = must_contain
    /\ rd_neg' = must_not_contain
    /\ rd_stream' = body
    /\ rd_body' = body
    /\ rd_tail' = <<>>
    /\ rd_seen_pos' = FALSE
    /\ rd_seen_neg' = FALSE
    /\ rd_total' = 0
    /\ rd_result' = FALSE
    /\ rd_closed' = FALSE
    /\ rd_scanned' = 0
    /\ rd_reads' = 0
    /\ rd_err' = None

\* a return value that is forced to false when the loop was left early
FinalResult_FalseIfUnfinished(seen_pos, seen_neg) ==
    /\ rd_stream = <<>>
    /\ need_positive /\ seen_pos
    /\ ~(need_negative /\ seen_neg)

\* lines 213-215: the value returned after the loop
FinalResult(seen_pos, seen_neg) ==
    LET saw_positive == need_positive /\ seen_pos
        saw_negative == need_negative /\ seen_neg
    IN  saw_positive /\ ~saw_negative

\* a failure check that gives way to a success marker already seen
StopsOnFailure_UnlessSuccess(seen_pos, seen_neg) ==
    need_negative /\ seen_neg /\ ~seen_pos

\* line 203: `if self._need_negative and self._seen_negative_identifier`
StopsOnFailure(seen_pos, seen_neg) == need_negative /\ seen_neg

\* a success check that does not look at the failure marker's configuration
StopsOnSuccess_Always(seen_pos, seen_neg) == need_positive /\ seen_pos

\* line 207: `if self._need_positive and self._seen_positive_identifier
\* and not self._need_negative`
StopsOnSuccess(seen_pos, seen_neg) ==
    need_positive /\ seen_pos /\ ~need_negative

\* a flag that is recomputed from the current buffer alone
SeenAfter_Recomputed(seen, need, buffer, marker) ==
    need /\ Contains(buffer, marker)

\* lines 197-201: a seen-flag after the buffer was searched; the code only
\* ever assigns True
SeenAfter(seen, need, buffer, marker) ==
    seen \/ (need /\ Contains(buffer, marker))

\* One turn of the loop of check_stream on the next chunk of the stream.
ReadChunk ==
    /\ rd_pc = "reading"
    /\ rd_stream # <<>>
    /\ LET chunk_ == Head(rd_stream)
           total == rd_total + Len(chunk_)
           buffer == rd_tail \o chunk_
           seen_pos == SeenAfter(rd_seen_pos, need_positive, buffer, rd_pos)
           seen_neg == SeenAfter(rd_seen_neg, need_negative, buffer, rd_neg)
       IN  /\ rd_stream' = Tail(rd_stream)
           /\ rd_reads' = rd_reads + 1
           /\ rd_total' = total
           /\ IF total > max_bytes
              THEN \* break
                   /\ rd_pc' = "returned"
                   /\ rd_result' = FinalResult(rd_seen_pos, rd_seen_neg)
                   /\ UNCHANGED <<rd_tail, rd_seen_pos, rd_seen_neg, rd_closed,
                                  rd_scanned>>
              ELSE /\ rd_seen_pos' = seen_pos
                   /\ rd_seen_neg' = seen_neg
                   /\ rd_scanned' = rd_scanned + Len(chunk_)
                   /\ IF StopsOnFailure(seen_pos, seen_neg)
                      THEN /\ rd_closed' = TRUE
                           /\ rd_pc' = "returned"
                           /\ rd_result' = FALSE
                           /\ UNCHANGED rd_tail
                      ELSE IF StopsOnSuccess(seen_pos, seen_neg)
                      THEN /\ rd_closed' = TRUE
                           /\ rd_pc' = "returned"
                           /\ rd_result' = TRUE
                           /\ UNCHANGED rd_tail
                      ELSE /\ rd_tail' = KeepTail(buffer, overlap_boundary)
                           /\ UNCHANGED <<rd_pc, rd_result, rd_closed>>
    /\ UNCHANGED <<rd_pos, rd_neg, rd_body, rd_err>>

\* The stream is exhausted: the loop ends and check_stream returns.
EndOfStream ==
    /\ rd_pc = "reading"
    /\ rd_stream = <<>>
    /\ rd_pc' = "returned"
    /\ rd_result' = FinalResult(rd_seen_pos, rd_seen_neg)
    /\ UNCHANGED <<rd_pos, rd_neg, rd_stream, rd_body, rd_tail, rd_seen_pos,
                   rd_seen_neg, rd_total, rd_closed, rd_scanned, rd_reads,
                   rd_err>>

\* The exception classes the model tells apart, each with its base class:
\* the httpx classes named by check_wmn_site and retry_policy, the classes
\* httpx raises that derive from them, and the builtins of _HTTPX_ERRORS.
ExcParent ==
    [TransportError |-> "RequestError", DecodingError |-> "RequestError",
     RequestError |-> "HTTPError", HTTPError |-> "Exception",
     TimeoutException |-> "TransportError", NetworkError |-> "TransportError",
     ProtocolError |-> "TransportError", ProxyError |-> "TransportError",
     ConnectTimeout |-> "TimeoutException", ReadTimeout |-> "TimeoutException",
     WriteTimeout |-> "TimeoutException", PoolTimeout |-> "TimeoutException",
     ConnectError |-> "NetworkError", ReadError |-> "NetworkError",
     WriteError |-> "NetworkError", CloseError |-> "NetworkError",
     LocalProtocolError |-> "ProtocolError",
     RemoteProtocolError |-> "ProtocolError",
     ConnectionError |-> "OSError", TimeoutError |-> "OSError",
     ConnectionResetError |-> "ConnectionError",
     OSError |-> "Exception", ValueError |-> "Exception"]

\* issubclass(c, d)
RECURSIVE IsSubclass(_, _)
IsSubclass(c, d) ==
    \/ c = d
    \/ c \in DOMAIN ExcParent /\ IsSubclass(ExcParent[c], d)

\* retry_policy._HTTPX_ERRORS (asyncio.TimeoutError is the builtin
\* TimeoutError)
HTTPX_ERRORS ==
    {"ConnectionError", "TimeoutError", "ConnectError", "ReadTimeout",
     "WriteError", "RemoteProtocolError", "PoolTimeout", "ProxyError",
     "NetworkError", "httpcore.ConnectError"}

\* `except self._HTTPX_ERRORS` catches the exception
Allowlisted(exc) == \E a \in HTTPX_ERRORS : IsSubclass(exc, a)

\* what reading a chunk can raise: a read timeout, another transport error,
\* or an error that is no transport error
ReadErrors == {"ReadTimeout", "ReadError", "DecodingError"}

\* for the reader alone one class that check_wmn_site catches and one it does
\* not are enough
StreamErrors == {"ReadTimeout", "DecodingError"}

\* Reading the next chunk raises: the exception leaves check_stream.
StreamRaises(err) ==
    /\ rd_pc = "reading"
    /\ rd_stream # <<>>
    /\ rd_pc' = "raised"
    /\ rd_err' = err
    /\ UNCHANGED <<rd_pos, rd_neg, rd_stream, rd_body, rd_tail, rd_seen_pos,
                   rd_seen_neg, rd_total, rd_result, rd_closed, rd_scanned,
                   rd_reads>>

\* A reader on every body of at most MaxBody bytes, split into chunks in
\* every way, with every pair of markers.
InitReader ==
    /\ \E body \in Chunkings(MaxBody) :
          /\ TotalLen(body) <= MaxBody
          /\ rd_stream = body
          /\ rd_body = body
    /\ rd_pos \in ByteStrings(MaxPosLen)
    /\ rd_neg \in ByteStrings(MaxNegLen)
    /\ rd_pc = "reading"
    /\ rd_tail = <<>>
    /\ rd_seen_pos = FALSE
    /\ rd_seen_neg = FALSE
    /\ rd_total = 0
    /\ rd_result = FALSE
    /\ rd_closed = FALSE
    /\ rd_scanned = 0
    /\ rd_reads = 0
    /\ rd_err = None

(***************************************************************************)
(* Claims about check_stream.                                              *)
(***************************************************************************)
\* the first n chunks of the body
FirstChunks(n) == SubSeq(rd_body, 1, n)

\* The whole-body reference: the success marker is configured and occurs in
\* the body, and the failure marker is not both configured and in the body.
WholeBodyReference ==
    LET whole == Flatten(rd_body)
    IN  /\ rd_pos # <<>> /\ Contains(whole, rd_pos)
        /\ ~(rd_neg # <<>> /\ Contains(whole, rd_neg))

\* C2: for every body within the byte cap and every way of splitting it into
\* chunks, check_stream returns what the whole-body reference gives.
C2_StreamMatchesWholeBody ==
    (rd_pc = "returned" /\ TotalLen(rd_body) <= max_bytes) =>
        rd_result = WholeBodyReference

\* C2 witness: a three-byte success marker found although every chunk was
\* shorter than the marker, so that it spanned two chunk boundaries.
C2_Witness ==
    /\ rd_pc = "returned"
    /\ rd_result
    /\ TotalLen(rd_body) <= max_bytes
    /\ Len(rd_pos) = 3
    /\ Len(rd_body) = 3
    /\ \A i \in 1..Len(rd_body) : Len(rd_body[i]) < Len(rd_pos)

\* The chunks that were searched for markers: those read before the
\* cumulative length passed the cap.
ScannedCount ==
    CHOOSE n \in 0..rd_reads :
        /\ TotalLen(FirstChunks(n)) <= max_bytes
        /\ \A m \in (n + 1)..rd_reads : TotalLen(FirstChunks(m)) > max_bytes

\* C3: when a failure marker is configured and the scanned data holds it,
\* check_stream has returned false and closed the response, and it stopped
\* at the chunk that completed the marker: the data before the last chunk
\* read did not hold it, so no chunk was read after it.
C3_FailureStopsScan ==
    (rd_neg # <<>> /\ Contains(Flatten(FirstChunks(ScannedCount)), rd_neg)) =>
        /\ rd_pc = "returned"
        /\ rd_result = FALSE
        /\ rd_closed
        /\ rd_reads = ScannedCount
        /\ ~Contains(Flatten(FirstChunks(rd_reads - 1)), rd_neg)

\* C3 witness: the failure marker stopped a scan that had seen the success
\* marker and that left chunks holding the success marker unread.
C3_Witness ==
    /\ rd_pc = "returned"
    /\ rd_seen_neg
    /\ rd_seen_pos
    /\ rd_result = FALSE
    /\ rd_stream # <<>>
    /\ Contains(Flatten(rd_stream), rd_pos)

\* C17: once the cumulative number of bytes read exceeds the cap, nothing
\* more is scanned and no further chunk is read; the bytes scanned for
\* markers never exceed the cap; and the result is the success flag and not
\* the failure flag as the data scanned before the cap set them.
C17_ByteCap ==
    /\ rd_scanned <= max_bytes
    /\ rd_total > max_bytes =>
          LET data == Flatten(FirstChunks(ScannedCount))
          IN  /\ rd_pc = "returned"
              /\ rd_reads = ScannedCount + 1
              /\ rd_scanned = Len(data)
              /\ rd_stream = SubSeq(rd_body, rd_reads + 1, Len(rd_body))
              /\ rd_result = (/\ rd_pos # <<>> /\ Contains(data, rd_pos)
                              /\ ~(rd_neg # <<>> /\ Contains(data, rd_neg)))

\* C17 witness: the cap was passed and the result is true, although the
\* chunk that passed the cap holds the failure marker.
C17_Witness ==
    /\ rd_pc = "returned"
    /\ rd_total > max_bytes
    /\ rd_result
    /\ rd_neg # <<>>
    /\ Contains(rd_body[rd_reads], rd_neg)


\* C23: with no failure marker configured, the chunk in which the success
\* marker is observed ends the scan with true; with a failure marker
\* configured, observing the success marker never ends the scan: it returns
\* only at the end of the stream, past the byte cap, or once the failure
\* marker is observed.
C23_SuccessStopsOnlyWithoutFailureMarker ==
    /\ []((rd_pc = "reading" /\ ~need_negative) => ~rd_seen_pos)
    /\ [][(rd_pc = "reading" /\ ~need_negative /\ rd_seen_pos')
            => (rd_pc' = "returned" /\ rd_result' /\ rd_closed'
                /\ rd_reads' = rd_reads + 1)]_vars
    /\ []((rd_pc = "returned" /\ need_negative) =>
            \/ rd_stream = <<>>
            \/ rd_total > max_bytes
            \/ rd_seen_neg)

\* C23 witness: with both markers configured the success marker was in the
\* first chunk, the scan read on to the end of a longer stream and returned
\* true.
C23_Witness ==
    /\ rd_pc = "returned"
    /\ need_negative /\ need_positive
    /\ Len(rd_body) >= 2
    /\ Contains(rd_body[1], rd_pos)
    /\ rd_reads = Len(rd_body)
    /\ rd_total <= max_bytes
    /\ rd_result

\* C24: the two seen-flags of a reader are monotonic: once the success-seen
\* or the failure-seen flag is true it is true in every later state of the
\* scan.
C24_SeenFlagsMonotonic ==
    [][/\ rd_seen_pos => rd_seen_pos'
       /\ rd_seen_neg => rd_seen_neg']_vars

\* C24 witness: the success marker was seen in the first chunk, the scan
\* read a last chunk whose buffer does not hold it, and the flag is still
\* true.
C24_Witness ==
    /\ rd_pc = "returned"
    /\ need_negative
    /\ Len(rd_body) >= 2
    /\ Contains(rd_body[1], rd_pos)
    /\ rd_reads = Len(rd_body)
    /\ rd_total <= max_bytes
    /\ ~Contains(rd_body[Len(rd_body) - 1] \o rd_body[Len(rd_body)], rd_pos)
    /\ rd_seen_pos

(***************************************************************************)
(* check_wmn_site: one attempt of a probe.                                 *)
(***************************************************************************)
StatusCodes == {200, 404}

\* m_code is optional: 0 stands for None (and is falsy like it)
InvalidCodes == {0} \cup StatusCodes

IdleProbe ==
    /\ pb_pc = "idle"
    /\ pb_site = [m_code |-> 0, e_code |-> 200, e_string |-> <<>>, m_string |-> <<>>]
    /\ pb_status = 0
    /\ pb_success = FALSE
    /\ pb_err = None

\* check_wmn_site called for a site: lines 236-243
InitProbe ==
    /\ pb_pc = "built"
    /\ \E mc \in InvalidCodes, ec \in StatusCodes,
          es \in ByteStrings(MaxProbeMarker), ms \in ByteStrings(MaxProbeMarker) :
          pb_site = [m_code |-> mc, e_code |-> ec, e_string |-> es, m_string |-> ms]
    /\ pb_status = 0
    /\ pb_success = FALSE
    /\ pb_err = None

\* a probe that never rejects on the invalid-status code
InvalidStatusHit_Never(invalid_status, status) == FALSE

\* line 248: `if invalid_status and status == invalid_status`
InvalidStatusHit(invalid_status, status) ==
    invalid_status # 0 /\ status = invalid_status

\* line 257: `if status != expect_status`
UnexpectedStatus(expect_status, status) == status # expect_status

\* The classes of exception sending the request can raise: one of
\* retry_policy._HTTPX_ERRORS, or any other Exception.
SendErrors == {"transient", "other"}

\* the bodies a response can deliver: at most MaxProbeBody bytes, in chunks
ProbeBodies == {body \in Chunkings(MaxProbeBody) : TotalLen(body) <= MaxProbeBody}

\* line 245: the request is sent and the response headers arrive, with the
\* body still to be streamed.
OpenResponse(status, body) ==
    /\ pb_pc = "built"
    /\ pb_pc' = "opened"
    /\ pb_status' = status
    /\ rd_stream' = body
    /\ rd_body' = body
    /\ UNCHANGED <<pb_site, pb_success, pb_err>>
    /\ UNCHANGED <<rd_pc, rd_pos, rd_neg, rd_tail, rd_seen_pos, rd_seen_neg,
                   rd_total, rd_result, rd_closed, rd_scanned, rd_reads, rd_err>>

\* line 245: sending the request raises
OpenRaises(err) ==
    /\ pb_pc = "built"
    /\ pb_pc' = "raised"
    /\ pb_err' = err
    /\ UNCHANGED <<pb_site, pb_status, pb_success>>
    /\ UNCHANGED readerVars

\* lines 246-270: the two status gates, then the reader is built with
\* must_contain = e_string and must_not_contain = m_string
StatusGate ==
    /\ pb_pc = "opened"
    /\ IF \/ InvalidStatusHit(pb_site.m_code, pb_status)
          \/ UnexpectedStatus(pb_site.e_code, pb_status)
       THEN /\ pb_pc' = "resolved"
            /\ pb_success' = FALSE
            /\ rd_closed' = TRUE
            /\ UNCHANGED <<rd_pc, rd_pos, rd_neg, rd_stream, rd_body, rd_tail,
                           rd_seen_pos, rd_seen_neg, rd_total, rd_result,
                           rd_scanned, rd_reads, rd_err>>
       ELSE /\ pb_pc' = "streaming"
            /\ NewReader(pb_site.e_string, pb_site.m_string, rd_stream)
            /\ UNCHANGED pb_success
    /\ UNCHANGED <<pb_site, pb_status, pb_err>>

\* a probe that reads the body outside a context manager: nothing closes the
\* response when check_stream returns
StreamReturned_LeavesOpen ==
    /\ pb_pc = "streaming"
    /\ rd_pc = "returned"
    /\ pb_pc' = "resolved"
    /\ pb_success' = rd_result
    /\ UNCHANGED <<pb_site, pb_status, pb_err>>
    /\ UNCHANGED readerVars

\* lines 273, 287-292: check_stream returned; the `async with` block is left
\* (which closes the response) and the result is returned
StreamReturned ==
    /\ pb_pc = "streaming"
    /\ rd_pc = "returned"
    /\ pb_pc' = "resolved"
    /\ pb_success' = rd_result
    /\ rd_closed' = TRUE
    /\ UNCHANGED <<pb_site, pb_status, pb_err>>
    /\ UNCHANGED <<rd_pc, rd_pos, rd_neg, rd_stream, rd_body, rd_tail,
                   rd_seen_pos, rd_seen_neg, rd_total, rd_result, rd_scanned,
                   rd_reads, rd_err>>

\* lines 274-277: `except (httpx.ReadTimeout, httpx.TransportError)`
CaughtInProbe(exc) ==
    IsSubclass(exc, "ReadTimeout") \/ IsSubclass(exc, "TransportError")

\* a probe that lets every error of check_stream out
StreamFailed_Reraises ==
    /\ pb_pc = "streaming"
    /\ rd_pc = "raised"
    /\ rd_closed' = TRUE
    /\ pb_pc' = "raised"
    /\ pb_err' = rd_err
    /\ UNCHANGED <<pb_site, pb_status, pb_success>>
    /\ UNCHANGED <<rd_pc, rd_pos, rd_neg, rd_stream, rd_body, rd_tail,
                   rd_seen_pos, rd_seen_neg, rd_total, rd_result, rd_scanned,
                   rd_reads, rd_err>>

\* lines 274-285: check_stream raised; a ReadTimeout or TransportError is
\* turned into an unsuccessful result, anything else leaves check_wmn_site
\* through the `async with` block
StreamFailed ==
    /\ pb_pc = "streaming"
    /\ rd_pc = "raised"
    /\ rd_closed' = TRUE
    /\ IF CaughtInProbe(rd_err)
       THEN /\ pb_pc' = "resolved"
            /\ pb_success' = FALSE
            /\ UNCHANGED pb_err
       ELSE /\ pb_pc' = "raised"
            /\ pb_err' = rd_err
            /\ UNCHANGED pb_success
    /\ UNCHANGED <<pb_site, pb_status>>
    /\ UNCHANGED <<rd_pc, rd_pos, rd_neg, rd_stream, rd_body, rd_tail,
                   rd_seen_pos, rd_seen_neg, rd_total, rd_result, rd_scanned,
                   rd_reads, rd_err>>

(***************************************************************************)
(* Claims about check_wmn_site.                                            *)
(***************************************************************************)
\* C4: once the status is known, if the invalid-status code is configured
\* and equals it, or it differs from the expected code, the reader is never
\* built and no chunk is read, and the probe is at its gates or resolved with
\* success = false; and a result with success = true has the expected
\* status, no invalid-status match, and a check_stream that returned true.
C4_StatusGating ==
    LET gated == \/ (pb_site.m_code # 0 /\ pb_status = pb_site.m_code)
                 \/ pb_status # pb_site.e_code
    IN  /\ (pb_status # 0 /\ gated) =>
              /\ rd_pc = "idle"
              /\ rd_reads = 0
              /\ pb_pc \in {"opened", "resolved"}
              /\ pb_pc = "resolved" => (pb_success = FALSE)
        /\ (pb_pc = "resolved" /\ pb_success) =>
              /\ ~gated
              /\ rd_pc = "returned"
              /\ rd_result

\* C4 witness: a response whose status is both the expected code and the
\* invalid-status code, with a body holding the success marker, resolved
\* unsuccessful without a read.
C4_Witness ==
    /\ pb_pc = "resolved"
    /\ pb_success = FALSE
    /\ pb_status = pb_site.e_code
    /\ pb_status = pb_site.m_code
    /\ pb_site.e_string # <<>>
    /\ Contains(Flatten(rd_body), pb_site.e_string)
    /\ rd_reads = 0

\* C18: on every exit path of an attempt whose response was opened (either
\* status gate, a stop on a failure or a success marker, the end of the
\* stream, the byte cap, an error of the stream) the response is closed by
\* the time the attempt resolves, and no chunk is read once it is closed.
C18_StreamReleased ==
    /\ []((pb_pc \in {"resolved", "raised"} /\ pb_status # 0) => rd_closed)
    /\ [][rd_closed => rd_reads' = rd_reads]_vars

\* C18 witness: an attempt resolved after its body passed the byte cap, with
\* part of the body never scanned, and the response is closed.
C18_Witness ==
    /\ pb_pc = "resolved"
    /\ rd_total > max_bytes
    /\ rd_scanned < TotalLen(rd_body)
    /\ rd_closed

(***************************************************************************)
(* retry_policy.call_with_retries.                                         *)
(***************************************************************************)
\* What one call of the wrapped function does: return, raise an exception
\* of retry_policy._HTTPX_ERRORS, or raise any other exception.
Outcomes == {"ok", "transient", "other"}

\* The state of a call_with_retries: `attempt_no`, where it stands (calling,
\* sleeping, returned, exhausted: NoAttemptsLeftError, propagated: the
\* function's own exception), the calls and sleeps done, `last_exc` and the
\* __cause__ of the exception raised (as the number of the call that raised
\* it, 0 for None).
RetryStart(attempts) ==
    IF attempts >= 1
    THEN [pc |-> "calling", attempt_no |-> 1, calls |-> 0, sleeps |-> 0,
          last_exc |-> 0, cause |-> 0, slept_after |-> 0]
    ELSE \* the loop body never runs: lines 92-94
         [pc |-> "exhausted", attempt_no |-> 0, calls |-> 0, sleeps |-> 0,
          last_exc |-> 0, cause |-> 0, slept_after |-> 0]

\* a handler that wraps every exception in NoAttemptsLeftError on the last
\* attempt
RetryCall_WrapsAll(st, attempts, outcome) ==
    LET n == st.calls + 1 IN
    IF outcome = "ok"
    THEN [st EXCEPT !.pc = "returned", !.calls = n]
    ELSE IF st.attempt_no = attempts
         THEN [st EXCEPT !.pc = "exhausted", !.calls = n, !.cause = n]
         ELSE IF outcome = "transient"
         THEN [st EXCEPT !.pc = "sleeping", !.calls = n, !.last_exc = n]
         ELSE [st EXCEPT !.pc = "propagated", !.calls = n, !.cause = 0]

\* a loop that gives up one attempt early
RetryCall_OneShort(st, attempts, outcome) ==
    LET n == st.calls + 1 IN
    IF outcome = "ok"
    THEN [st EXCEPT !.pc = "returned", !.calls = n]
    ELSE IF outcome = "transient"
    THEN IF st.attempt_no >= attempts - 1
         THEN [st EXCEPT !.pc = "exhausted", !.calls = n, !.cause = n]
         ELSE [st EXCEPT !.pc = "sleeping", !.calls = n, !.last_exc = n]
    ELSE [st EXCEPT !.pc = "propagated", !.calls = n, !.cause = 0]

\* lines 80-90: one call of the function and the handling of its outcome
RetryCall(st, attempts, outcome) ==
    LET n == st.calls + 1 IN
    IF outcome = "ok"
    THEN [st EXCEPT !.pc = "returned", !.calls = n]
    ELSE IF outcome = "transient"
    THEN IF st.attempt_no = attempts
         THEN [st EXCEPT !.pc = "exhausted", !.calls = n, !.cause = n]
         ELSE [st EXCEPT !.pc = "sleeping", !.calls = n, !.last_exc = n]
    ELSE [st EXCEPT !.pc = "propagated", !.calls = n, !.cause = 0]

\* line 88 done: asyncio.sleep returns and the loop goes to the next attempt
RetryWake(st) ==
    [st EXCEPT !.pc = "calling", !.attempt_no = st.attempt_no + 1,
               !.sleeps = st.sleeps + 1, !.slept_after = st.calls]

\* lines 81-90: what the call of the function is to call_with_retries: a
\* return, an exception `except self._HTTPX_ERRORS` catches, or another one
AttemptOutcome(b) ==
    IF b \in Outcomes THEN b
    ELSE IF Allowlisted(b) THEN "transient"
    ELSE "other"

\* the classes of exception the wrapped function raises in the model
RaisedClasses ==
    {"ConnectError", "ReadTimeout", "WriteTimeout", "PoolTimeout",
     "RemoteProtocolError", "ProxyError", "ValueError"}

\* call_with_retries(func) for a function that returns or raises an
\* exception of a given class on each of its calls
InitRetryClasses ==
    /\ rt_attempts \in 1..MaxAttempts
    /\ rt_behav \in [1..MaxAttempts -> {"ok"} \cup RaisedClasses]
    /\ rt = RetryStart(rt_attempts)

IdleRetry ==
    /\ rt = [pc |-> "idle"]
    /\ rt_attempts = 0
    /\ rt_behav = <<>>

\* call_with_retries(func) for a policy of `attempts` attempts and a
\* function with a given behaviour on each of its calls
InitRetry ==
    /\ rt_attempts \in 0..MaxAttempts
    /\ rt_behav \in [1..MaxAttempts -> Outcomes]
    /\ rt = RetryStart(rt_attempts)

\* line 81: the function is awaited and returns or raises
CallFunc ==
    /\ rt.pc = "calling"
    /\ rt' = RetryCall(rt, rt_attempts, AttemptOutcome(rt_behav[rt.calls + 1]))
    /\ UNCHANGED <<rt_attempts, rt_behav>>

\* line 88: the backoff sleep ends
BackoffDone ==
    /\ rt.pc = "sleeping"
    /\ rt' = RetryWake(rt)
    /\ UNCHANGED <<rt_attempts, rt_behav>>

(***************************************************************************)
(* Claims about call_with_retries.                                         *)
(***************************************************************************)
\* the number of leading calls on which the function raises a transient error
RECURSIVE LeadingTransient(_, _)
LeadingTransient(behav, i) ==
    IF i > Len(behav) \/ behav[i] # "transient" THEN 0
    ELSE 1 + LeadingTransient(behav, i + 1)

\* the function raises a transient error on exactly its first k calls and
\* then succeeds
FailsKThenSucceeds(k) ==
    /\ k >= 1
    /\ k < Len(rt_behav)
    /\ LeadingTransient(rt_behav, 1) = k
    /\ rt_behav[k + 1] = "ok"

Finished(st) == st.pc \in {"returned", "exhausted", "propagated"}

\* C5: for a function that raises a transient error on exactly its first k
\* calls (k >= 1) and then succeeds, a finished call_with_retries has, with
\* attempts = k + 1, returned the value of call k + 1, and with attempts = k,
\* raised NoAttemptsLeftError whose cause is the error of call k.
C5_RetryKTimes ==
    \A k \in 1..MaxAttempts :
        (FailsKThenSucceeds(k) /\ Finished(rt)) =>
            /\ rt_attempts = k + 1 => (rt.pc = "returned" /\ rt.calls = k + 1)
            /\ rt_attempts = k =>
                  (rt.pc = "exhausted" /\ rt.cause = k /\ rt.calls = k)

\* C5 witness: two transient failures, then exhaustion with attempts = 2.
C5_Witness ==
    /\ FailsKThenSucceeds(2)
    /\ rt_attempts = 2
    /\ rt.pc = "exhausted"
    /\ rt.cause = 2

\* C6: when a call of the function raises an exception that is not in the
\* allowlist, call_with_retries has propagated that exception: the call was
\* the last one, no sleep followed it, and NoAttemptsLeftError was not
\* raised, whatever the attempt number.
C6_OtherErrorPropagates ==
    \A n \in 1..MaxAttempts :
        (rt.pc # "idle" /\ rt.calls >= n /\ rt_behav[n] = "other") =>
            /\ rt.pc = "propagated"
            /\ rt.calls = n
            /\ rt.slept_after < n
            /\ rt.cause = 0

\* C6 witness: a non-allowlisted exception on the last attempt of three,
\* after two retried failures.
C6_Witness ==
    /\ rt.pc = "propagated"
    /\ rt_attempts = 3
    /\ rt.calls = 3
    /\ rt.sleeps = 2

\* C27: for every configured attempts value n, a finished call_with_retries
\* has invoked the function at least once and at most n times, every
\* invocation but the last raised an allowlisted exception, one sleep lies
\* between two consecutive invocations and none follows the last one.
C27_CallsAndSleeps ==
    Finished(rt) =>
        /\ rt.calls >= 1
        /\ rt.calls <= rt_attempts
        /\ \A i \in 1..(rt.calls - 1) : AttemptOutcome(rt_behav[i]) = "transient"
        /\ rt.sleeps = rt.calls - 1
        /\ rt.slept_after < rt.calls

\* what call_with_retries sees of a finished attempt of check_wmn_site: a
\* return, an exception of _HTTPX_ERRORS, or another exception
ProbeOutcome ==
    IF pb_pc = "resolved" THEN "ok" ELSE AttemptOutcome(pb_err)

\* C25: when reading the body raises a read timeout or any other transport
\* error after both status gates passed, the attempt resolves with the
\* observed status and success = false and raises nothing, so that
\* call_with_retries returns after this one call without a sleep.
C25_StreamErrorResolves ==
    (/\ pb_pc \in {"resolved", "raised"}
     /\ rd_pc = "raised"
     /\ IsSubclass(rd_err, "TransportError")) =>
        /\ pb_pc = "resolved"
        /\ pb_success = FALSE
        /\ pb_err = None
        /\ pb_status = pb_site.e_code
        /\ pb_status \in StatusCodes
        /\ LET st == RetryCall(RetryStart(ProbeAttempts), ProbeAttempts,
                               ProbeOutcome)
           IN  st.pc = "returned" /\ st.calls = 1 /\ st.sleeps = 0

\* C25 witness: a read timeout struck after a chunk holding the success
\* marker was read, and the attempt resolved unsuccessful.
C25_Witness ==
    /\ pb_pc = "resolved"
    /\ rd_pc = "raised"
    /\ rd_err = "ReadTimeout"
    /\ rd_reads >= 1
    /\ rd_seen_pos
    /\ pb_success = FALSE

\* the failure classes named as transient: connection failure, read
\* timeout, write timeout, pool timeout, protocol error, proxy error
NamedTransient ==
    {"ConnectError", "ReadTimeout", "WriteTimeout", "PoolTimeout",
     "RemoteProtocolError", "ProxyError"}

\* C26: an attempt that raises a connection failure, a read timeout, a write
\* timeout, a pool timeout, a protocol error or a proxy error while attempts
\* remain is followed by a backoff sleep and another attempt: the exception
\* is never propagated at once.
C26_NamedTransientRetried ==
    (rt.pc = "propagated" /\ rt.attempt_no < rt_attempts) =>
        rt_behav[rt.calls] \notin NamedTransient

(***************************************************************************)
(* _async_wmn_worker_process: the run_one tasks of one chunk under a       *)
(* semaphore. check_wmn_site is the probe wrapped by                      *)
(* retry_policy(attempts=3): each task carries the state of its            *)
(* call_with_retries.                                                      *)
(***************************************************************************)
NoRetry == [pc |-> "idle"]

\* `via` records how check_wmn_site ended for the task: "returned",
\* "exhausted" (NoAttemptsLeftError) or "propagated" (any other exception)
NewTask == [pc |-> "created", rt |-> NoRetry, outcome |-> None, via |-> None]

IdleWorker ==
    /\ wk_pc = "idle"
    /\ wk_n = 0
    /\ wk_conc = 0
    /\ sem_value = 0
    /\ sem_waiters = <<>>
    /\ tk = <<>>
    /\ wk_results = <<>>

\* lines 317-333: the semaphore, the empty result list and one task per site
InitWorker ==
    /\ wk_pc = "gathering"
    /\ wk_n \in 0..MaxTasks
    /\ wk_conc \in MinConc..MaxConc
    /\ sem_value = wk_conc
    /\ sem_waiters = <<>>
    /\ tk = [t \in 1..wk_n |-> NewTask]
    /\ wk_results = <<>>

\* asyncio.Semaphore.locked(): no free permit, or tasks already waiting
Locked == sem_value = 0 \/ sem_waiters # <<>>

\* a run_one whose semaphore is released only when the probe returns
\* (acquire and release without a context manager)
ExitPath_LeaksOnRaise(st) ==
    [leaves |-> st.pc \in {"returned", "exhausted", "propagated"},
     releases |-> st.pc = "returned",
     appends |-> st.pc = "returned",
     outcome |-> IF st.pc = "returned" THEN "returned" ELSE "caught"]

\* a run_one that records a retry exhaustion as a result
ExitPath_RecordsExhaustion(st) ==
    [leaves |-> st.pc \in {"returned", "exhausted", "propagated"},
     releases |-> st.pc \in {"returned", "exhausted", "propagated"},
     appends |-> st.pc \in {"returned", "exhausted"},
     outcome |-> IF st.pc = "returned" THEN "returned" ELSE "caught"]

\* lines 322-331: how run_one is left once check_wmn_site has returned or
\* raised: `async with semaphore` releases the permit on both paths, the
\* result is appended only on a return, and `except Exception` catches what
\* was raised.
ExitPath(st) ==
    [leaves |-> st.pc \in {"returned", "exhausted", "propagated"},
     releases |-> st.pc \in {"returned", "exhausted", "propagated"},
     appends |-> st.pc = "returned",
     outcome |-> IF st.pc = "returned" THEN "returned" ELSE "caught"]

\* line 323, entering `async with semaphore`: the permit is taken at once
\* when the semaphore is not locked, else the task queues up
TaskAcquire(t) ==
    /\ wk_pc = "gathering"
    /\ t \in 1..wk_n
    /\ tk[t].pc = "created"
    /\ IF Locked
       THEN /\ sem_waiters' = Append(sem_waiters, t)
            /\ tk' = [tk EXCEPT ![t].pc = "waiting"]
            /\ UNCHANGED sem_value
       ELSE /\ sem_value' = sem_value - 1
            /\ tk' = [tk EXCEPT ![t].pc = "probing",
                                ![t].rt = RetryStart(ProbeAttempts)]
            /\ UNCHANGED sem_waiters
    /\ UNCHANGED <<wk_pc, wk_n, wk_conc, wk_results>>

\* a task that was handed a permit resumes and calls check_wmn_site
TaskResume(t) ==
    /\ wk_pc = "gathering"
    /\ t \in 1..wk_n
    /\ tk[t].pc = "woken"
    /\ tk' = [tk EXCEPT ![t].pc = "probing", ![t].rt = RetryStart(ProbeAttempts)]
    /\ UNCHANGED <<wk_pc, wk_n, wk_conc, sem_value, sem_waiters, wk_results>>

\* lines 324-331: one attempt of the probe of task t ends with `outcome`
\* (and, if it returns, with a result whose success flag is `success`); when
\* that ends call_with_retries, run_one is left: the permit goes back to the
\* semaphore, which hands it to the oldest waiter.
TaskAttempt(t, outcome, success) ==
    /\ wk_pc = "gathering"
    /\ t \in 1..wk_n
    /\ tk[t].pc = "probing"
    /\ tk[t].rt.pc = "calling"
    /\ LET st == RetryCall(tk[t].rt, ProbeAttempts, outcome)
           exit == ExitPath(st)
           wake == exit.releases /\ sem_waiters # <<>>
           left == IF exit.leaves
                   THEN [tk EXCEPT ![t] = [pc |-> "done", rt |-> NoRetry,
                                           outcome |-> exit.outcome,
                                           via |-> st.pc]]
                   ELSE [tk EXCEPT ![t].rt = st]
       IN  /\ tk' = IF wake
                    THEN [left EXCEPT ![Head(sem_waiters)].pc = "woken"]
                    ELSE left
           /\ sem_waiters' = IF wake THEN Tail(sem_waiters) ELSE sem_waiters
           /\ sem_value' = IF exit.releases /\ ~wake THEN sem_value + 1
                           ELSE sem_value
           /\ wk_results' = IF exit.appends
                            THEN Append(wk_results, [site |-> t, success |-> success])
                            ELSE wk_results
    /\ UNCHANGED <<wk_pc, wk_n, wk_conc>>

\* _retry.py line 88: the backoff sleep of task t ends; the task kept its
\* permit while it slept
TaskBackoffDone(t) ==
    /\ wk_pc = "gathering"
    /\ t \in 1..wk_n
    /\ tk[t].pc = "probing"
    /\ tk[t].rt.pc = "sleeping"
    /\ tk' = [tk EXCEPT ![t].rt = RetryWake(tk[t].rt)]
    /\ UNCHANGED <<wk_pc, wk_n, wk_conc, sem_value, sem_waiters, wk_results>>

\* lines 334-337: gather is over once every task is done
WorkerReturn ==
    /\ wk_pc = "gathering"
    /\ \A t \in 1..wk_n : tk[t].pc = "done"
    /\ wk_pc' = "returned"
    /\ UNCHANGED <<wk_n, wk_conc, sem_value, sem_waiters, tk, wk_results>>

(***************************************************************************)
(* Claims about the worker.                                                *)
(***************************************************************************)
\* the probes between acquiring and releasing the semaphore
InFlight == {t \in 1..wk_n : tk[t].pc \in {"woken", "probing"}}

Admitted(t) == tk[t].pc \in {"woken", "probing", "done"}

\* C7: in a worker, at every moment at most concurrency_per_process probes
\* are in flight (a probe sleeping in its retry backoff included), and the
\* in-flight probes and the free permits add up to the semaphore's width, so
\* every exit path gave its permit back; and every site of the chunk is
\* eventually admitted.
C7_SemaphoreBound ==
    /\ [](wk_pc # "idle" =>
            /\ Cardinality(InFlight) <= wk_conc
            /\ Cardinality(InFlight) + sem_value = wk_conc)
    /\ \A t \in 1..MaxTasks : <>(wk_pc # "idle" /\ (t <= wk_n => Admitted(t)))

\* C7 witness: the semaphore is full; one probe sleeps in its backoff, and
\* the other permit was handed to a waiting task by a probe that left by an
\* exception (no probe has returned yet).
C7_Witness ==
    /\ wk_pc = "gathering"
    /\ Cardinality(InFlight) = wk_conc
    /\ \E t \in InFlight : tk[t].pc = "woken"
    /\ \E t \in InFlight : tk[t].pc = "probing" /\ tk[t].rt.pc = "sleeping"
    /\ \E t \in 1..wk_n : tk[t].pc = "done" /\ tk[t].outcome = "caught"
    /\ wk_results = <<>>

\* C8: when the worker returns, every task is done, none ended by an
\* uncaught exception, and the result list holds exactly one result for each
\* site whose probe returned and none for a site whose probe raised.
C8_RaisingProbeIsolated ==
    wk_pc = "returned" =>
        /\ \A t \in 1..wk_n :
              /\ tk[t].pc = "done"
              /\ tk[t].outcome \in {"returned", "caught"}
              /\ Cardinality({i \in 1..Len(wk_results) : wk_results[i].site = t})
                    = IF tk[t].outcome = "returned" THEN 1 ELSE 0
        /\ \A i \in 1..Len(wk_results) : wk_results[i].site \in 1..wk_n

\* C8 witness: a worker returned the results of two sites although the
\* probe of a third raised.
C8_Witness ==
    /\ wk_pc = "returned"
    /\ wk_n = 3
    /\ Len(wk_results) = 2
    /\ \E t \in 1..wk_n : tk[t].outcome = "caught"

\* the tasks whose probe failed with an allowlisted error on every attempt
Exhausted == {t \in 1..wk_n : tk[t].pc = "done" /\ tk[t].via = "exhausted"}

\* C11: when a site's probe fails with allowlisted transient errors on every
\* attempt, the exhaustion error is caught and the site is recorded as an
\* unsuccessful result: the list the worker returns (which check_username
\* returns unfiltered when success_only is off) holds a result for the site
\* with success = FALSE.
C11_ExhaustionRecorded ==
    wk_pc = "returned" =>
        \A t \in Exhausted :
            \E i \in 1..Len(wk_results) :
                wk_results[i].site = t /\ ~wk_results[i].success

(***************************************************************************)
(* UsernameScanner: the constructor and check_username.                    *)
(***************************************************************************)
\* the values os.cpu_count() returns in the model: None (0), a small
\* machine and two large ones
CpuCounts == {0, 4, 64, 128}

\* _get_proc_count: max(1, os.cpu_count() or 1) * chunk_size // 100
get_proc_count(chunk_size, cpu) ==
    (Max(1, IF cpu = 0 THEN 1 ELSE cpu) * chunk_size) \div ProcDivisor

\* the collections the scans of the model are given
ScanKinds == {"get", "post", "nocode"}

ScanRuleSets == {NoRuleSet, [DefaultRuleSet EXCEPT !.http_get_only = TRUE]}

\* the sequences that hold every element of S once
RECURSIVE Orderings(_)
Orderings(S) ==
    IF S = {} THEN {<<>>}
    ELSE UNION {{<<x>> \o o : o \in Orderings(S \ {x})} : x \in S}

\* The lists a worker can return for a chunk: one result for each site of
\* any subset of the chunk (the sites whose probe returned), in any order,
\* each with any success flag.
WorkerResults(ch) ==
    UNION {Orderings({[site |-> ch[i].id, success |-> flags[i]] : i \in returned}) :
              <<returned, flags>> \in (SUBSET (1..Len(ch))) \X [1..Len(ch) -> BOOLEAN]}

\* filter_for_success / the filter of lines 492-495
RECURSIVE filter_for_success(_)
filter_for_success(results) ==
    IF results = <<>> THEN <<>>
    ELSE IF results[1].success
         THEN <<results[1]>> \o filter_for_success(Tail(results))
         ELSE filter_for_success(Tail(results))

IdleScan ==
    /\ sc_pc = "idle"
    /\ sc_chunk_size = 0
    /\ sc_conc = 0
    /\ sc_cpu = 0
    /\ sc_procs = 0
    /\ sc_success_only = FALSE
    /\ sc_calls = 0
    /\ fut = <<>>
    /\ pool_broken = FALSE
    /\ sc_done_q = <<>>
    /\ sc_all = <<>>
    /\ sc_ret = <<>>

\* UsernameScanner.__init__ with any chunk_size and concurrency_per_process,
\* then check_username called with a loaded collection
InitScan ==
    /\ sc_pc = "called"
    /\ \E given \in -1..MaxGiven : sc_chunk_size = Max(MinChunkSize, given)
    /\ \E given \in -1..MaxGiven : sc_conc = Max(MinConc, given)
    /\ sc_cpu \in CpuCounts
    /\ sc_procs = 0
    /\ sc_success_only \in BOOLEAN
    /\ sc_calls = 1
    /\ fut = <<>>
    /\ pool_broken = FALSE
    /\ sc_done_q = <<>>
    /\ sc_all = <<>>
    /\ sc_ret = <<>>

\* the collection handed to check_username
InitScanColl ==
    /\ \E n \in 0..MaxScanSites : \E kinds \in [1..n -> ScanKinds] :
          sites = [i \in 1..n |-> MkRecord(i, kinds[i])]
    /\ sites0 = sites
    /\ rule_set \in ScanRuleSets
    /\ ck_pc = "idle"
    /\ ck_size = 0
    /\ chunk = <<>>
    /\ chunks = <<>>

\* lines 466-471: the process count, the pool (ProcessPoolExecutor refuses
\* max_workers <= 0 with a ValueError) and the call of chunkate
ScanStart ==
    /\ sc_pc = "called"
    /\ sc_procs' = get_proc_count(sc_chunk_size, sc_cpu)
    /\ IF sc_procs' <= 0
       THEN sc_pc' = "raised" /\ UNCHANGED collVars
       ELSE sc_pc' = "submitting" /\ ChunkateCall(sc_chunk_size)
    /\ UNCHANGED <<sc_chunk_size, sc_conc, sc_cpu, sc_success_only, sc_calls, fut,
                   pool_broken, sc_done_q, sc_all, sc_ret>>

NewFuture == [state |-> "pending", results |-> <<>>, cause |-> None]

\* lines 472-481 for the chunk chunkate has just yielded, if any: submit
\* raises BrokenProcessPool once the pool is broken
Submitted(next_pc) ==
    IF Len(chunks') > Len(chunks)
    THEN IF pool_broken
         THEN sc_pc' = "raised" /\ UNCHANGED fut
         ELSE sc_pc' = next_pc /\ fut' = Append(fut, NewFuture)
    ELSE sc_pc' = next_pc /\ UNCHANGED fut

\* lines 471-481: one turn of chunkate inside the submission loop
ScanSubmitStep ==
    /\ sc_pc = "submitting"
    /\ ChunkateStep
    /\ Submitted("submitting")
    /\ UNCHANGED <<sc_chunk_size, sc_conc, sc_cpu, sc_procs, sc_success_only, sc_calls,
                   pool_broken, sc_done_q, sc_all, sc_ret>>

\* lines 471-483: chunkate ends (with its last chunk, if any)
ScanSubmitEnd ==
    /\ sc_pc = "submitting"
    /\ ChunkateFinish
    /\ Submitted("collecting")
    /\ UNCHANGED <<sc_chunk_size, sc_conc, sc_cpu, sc_procs, sc_success_only, sc_calls,
                   pool_broken, sc_done_q, sc_all, sc_ret>>

Running == {i \in 1..Len(fut) : fut[i].state = "running"}

\* a free process of the pool takes the oldest waiting work item: the
\* chunk of future i
WorkerStart(i) ==
    /\ sc_pc \in {"submitting", "collecting"}
    /\ i \in 1..Len(fut)
    /\ fut[i].state = "pending"
    /\ \A j \in 1..(i - 1) : fut[j].state # "pending"
    /\ ~pool_broken
    /\ Cardinality(Running) < sc_procs
    /\ fut' = [fut EXCEPT ![i].state = "running"]
    /\ UNCHANGED <<sc_pc, sc_chunk_size, sc_conc, sc_cpu, sc_procs,
                   sc_success_only, sc_calls, pool_broken, sc_done_q, sc_all, sc_ret>>
    /\ UNCHANGED collVars

\* _wmn_worker_sync returns the list of its worker
WorkerDone(i, results) ==
    /\ sc_pc \in {"submitting", "collecting"}
    /\ i \in 1..Len(fut)
    /\ fut[i].state = "running"
    /\ fut' = [fut EXCEPT ![i].state = "done", ![i].results = results]
    /\ sc_done_q' = Append(sc_done_q, i)
    /\ UNCHANGED <<sc_pc, sc_chunk_size, sc_conc, sc_cpu, sc_procs,
                   sc_success_only, sc_calls, pool_broken, sc_all, sc_ret>>
    /\ UNCHANGED collVars

\* _wmn_worker_sync raises: the exception is set on the future
WorkerRaises(i) ==
    /\ sc_pc \in {"submitting", "collecting"}
    /\ i \in 1..Len(fut)
    /\ fut[i].state = "running"
    /\ fut' = [fut EXCEPT ![i].state = "failed", ![i].cause = "raised"]
    /\ sc_done_q' = Append(sc_done_q, i)
    /\ UNCHANGED <<sc_pc, sc_chunk_size, sc_conc, sc_cpu, sc_procs,
                   sc_success_only, sc_calls, pool_broken, sc_all, sc_ret>>
    /\ UNCHANGED collVars

\* the futures that have no result or exception yet, in order
RECURSIVE Unfinished(_, _)
Unfinished(fs, i) ==
    IF i > Len(fs) THEN <<>>
    ELSE IF fs[i].state \in {"pending", "running"}
         THEN <<i>> \o Unfinished(fs, i + 1)
         ELSE Unfinished(fs, i + 1)

\* The process running the chunk of future i dies. ProcessPoolExecutor marks
\* the pool broken and sets BrokenProcessPool on every future that has not
\* finished: that of the dead worker and those of the other chunks.
WorkerCrash(i) ==
    /\ sc_pc \in {"submitting", "collecting"}
    /\ i \in 1..Len(fut)
    /\ fut[i].state = "running"
    /\ pool_broken' = TRUE
    /\ fut' = [j \in 1..Len(fut) |->
                 IF j = i THEN [fut[j] EXCEPT !.state = "failed", !.cause = "crashed"]
                 ELSE IF fut[j].state \in {"pending", "running"}
                 THEN [fut[j] EXCEPT !.state = "failed", !.cause = "broken_pool"]
                 ELSE fut[j]]
    /\ sc_done_q' = sc_done_q \o Unfinished(fut, 1)
    /\ UNCHANGED <<sc_pc, sc_chunk_size, sc_conc, sc_cpu, sc_procs,
                   sc_success_only, sc_calls, sc_all, sc_ret>>
    /\ UNCHANGED collVars

\* a collecting loop that keeps only the list of the last future
CollectOutcome_Overwrites(f) ==
    IF f.state = "done"
    THEN [pc |-> "collecting", all |-> f.results]
    ELSE [pc |-> "collecting", all |-> sc_all]

\* lines 485-489: the awaited future gives its list, or raises and is logged
CollectOutcome(f) ==
    IF f.state = "done"
    THEN [pc |-> "collecting", all |-> sc_all \o f.results]
    ELSE [pc |-> "collecting", all |-> sc_all]

\* lines 484-489: as_completed yields the next finished future
Collect ==
    /\ sc_pc = "collecting"
    /\ sc_done_q # <<>>
    /\ sc_pc' = CollectOutcome(fut[Head(sc_done_q)]).pc
    /\ sc_all' = CollectOutcome(fut[Head(sc_done_q)]).all
    /\ sc_done_q' = Tail(sc_done_q)
    /\ UNCHANGED <<sc_chunk_size, sc_conc, sc_cpu, sc_procs, sc_success_only, sc_calls,
                   fut, pool_broken, sc_ret>>
    /\ UNCHANGED collVars

\* lines 491-497: every future was awaited; the list is returned
ScanReturn ==
    /\ sc_pc = "collecting"
    /\ sc_done_q = <<>>
    /\ \A i \in 1..Len(fut) : fut[i].state \in {"done", "failed"}
    /\ sc_pc' = "returned"
    /\ sc_ret' = IF sc_success_only THEN filter_for_success(sc_all) ELSE sc_all
    /\ UNCHANGED <<sc_chunk_size, sc_conc, sc_cpu, sc_procs, sc_success_only, sc_calls,
                   fut, pool_broken, sc_done_q, sc_all>>
    /\ UNCHANGED collVars

\* a second call that is given a freshly loaded collection
ScanAgain_FreshCollection ==
    /\ sc_pc = "returned"
    /\ sc_calls < MaxCalls
    /\ sc_calls' = sc_calls + 1
    /\ sc_pc' = "called"
    /\ sc_success_only' \in BOOLEAN
    /\ sc_procs' = 0
    /\ fut' = <<>>
    /\ pool_broken' = FALSE
    /\ sc_done_q' = <<>>
    /\ sc_all' = <<>>
    /\ sc_ret' = <<>>
    /\ sites' = sites0
    /\ ck_pc' = "idle"
    /\ ck_size' = 0
    /\ chunk' = <<>>
    /\ chunks' = <<>>
    /\ UNCHANGED <<sc_chunk_size, sc_conc, sc_cpu, sites0, rule_set>>

\* check_username is called again on the same scanner with the same
\* collection object (line 463: a WMNCollection is always truthy, so the
\* object given is the one used): a new pool, a new chunkate generator and new
\* result lists over the site list as the first call left it
ScanAgain ==
    /\ sc_pc = "returned"
    /\ sc_calls < MaxCalls
    /\ sc_calls' = sc_calls + 1
    /\ sc_pc' = "called"
    /\ sc_success_only' \in BOOLEAN
    /\ sc_procs' = 0
    /\ fut' = <<>>
    /\ pool_broken' = FALSE
    /\ sc_done_q' = <<>>
    /\ sc_all' = <<>>
    /\ sc_ret' = <<>>
    /\ ck_pc' = "idle"
    /\ ck_size' = 0
    /\ chunk' = <<>>
    /\ chunks' = <<>>
    /\ UNCHANGED <<sc_chunk_size, sc_conc, sc_cpu, sites, sites0, rule_set>>

(***************************************************************************)
(* Properties of check_username.                                           *)
(***************************************************************************)
\* the chunks whose own worker failed: it raised or its process died
OwnFailures == {i \in 1..Len(fut) : fut[i].cause \in {"raised", "crashed"}}

\* the results check_username owes for a finished chunk
Owed(i) ==
    {r \in Range(fut[i].results) : ~sc_success_only \/ r.success}

\* C9: if the worker process of one chunk fails (it crashes or its top-level
\* call raises), check_username returns, that chunk contributes no result,
\* and every other chunk is still processed: its results are collected and
\* returned.
C9_WorkerFailureIsolated ==
    (sc_pc = "returned" /\ Cardinality(OwnFailures) = 1) =>
        \A i \in 1..Len(fut) :
            IF i \in OwnFailures
            THEN \A k \in 1..Len(chunks[i]) :
                    \A r \in Range(sc_ret) : r.site # chunks[i][k].id
            ELSE /\ fut[i].state = "done"
                 /\ Owed(i) \subseteq Range(sc_ret)

\* C10: given a loaded collection, check_username never raises, for every
\* chunk size, concurrency width and CPU count, whatever the probes do
\* (no worker process dies).
C10_NeverRaises ==
    ~(sc_pc = "raised" /\ ~pool_broken)

\* the results of every worker that returned its list
Collected ==
    UNION {Range(fut[i].results) : i \in {j \in 1..Len(fut) : fut[j].state = "done"}}

\* C14: check_username flattens the lists of all workers into one list
\* whatever the order the workers complete in; with success_only it returns
\* exactly the collected results whose success flag is true, each once, and
\* without it all collected results.
C14_FlattenAndFilter ==
    sc_pc = "returned" =>
        /\ Range(sc_all) = Collected
        /\ Len(sc_all) = Cardinality(Collected)
        /\ Range(sc_ret) = {r \in Collected : sc_success_only => r.success}
        /\ Len(sc_ret) = Cardinality(Range(sc_ret))

\* C14 witness: two workers returned, the second before the first; the
\* collected results hold a success and a failure and the filter dropped the
\* failure.
C14_Witness ==
    /\ sc_pc = "returned"
    /\ sc_success_only
    /\ Len(fut) = 2
    /\ fut[1].state = "done" /\ fut[1].results # <<>>
    /\ fut[2].state = "done" /\ fut[2].results # <<>>
    /\ sc_all[1] \in Range(fut[2].results)
    /\ sc_ret # <<>>
    /\ Len(sc_ret) < Len(sc_all)

\* C30: a scan consumes its collection: the records are removed one by one
\* from the end, each once, whether yielded, filtered or unparsable; once
\* check_username has returned the collection holds no record; and a second
\* call with the same collection submits no chunk and returns an empty list.
C30_ScanConsumesCollection ==
    /\ Len(sites) <= Len(sites0) /\ sites = SubSeq(sites0, 1, Len(sites))
    /\ sc_pc = "returned" => sites = <<>>
    /\ sc_calls >= 2 =>
          /\ sites = <<>>
          /\ chunks = <<>>
          /\ fut = <<>>
          /\ sc_pc # "raised"
          /\ sc_pc = "returned" => sc_ret = <<>>

\* C30 witness: a collection of a GET site, a POST site and an unparsable
\* record under a GET-only rule set was scanned, and a second call on it has
\* returned.
C30_Witness ==
    /\ sc_calls = 2
    /\ sc_pc = "returned"
    /\ ~rule_set.none
    /\ Len(sites0) = 3
    /\ \E i, j, k \in 1..3 :
          /\ "post_body" \in sites0[i].keys
          /\ ~ValidRecord(sites0[j])
          /\ ValidRecord(sites0[k]) /\ "post_body" \notin sites0[k].keys

\* C19: the worker-process count _get_proc_count derives is at least 1 for
\* every CPU count (an unknown one included) and every chunk size the
\* scanner can have (>= 2).
C19_ProcCountAtLeastOne ==
    sc_chunk_size >= 2 => get_proc_count(sc_chunk_size, sc_cpu) >= 1

(***************************************************************************)
(* http/_client.py: verify_http_url and ReconoscopeTransport.              *)
(* A URL is its scheme and its host. A host is its text and the form of    *)
(* its labels: "ascii", "unicode" (non-ASCII letters) or "ace" (the xn--   *)
(* encoding of a unicode host). httpx.URL.host gives an ace host back in   *)
(* its unicode form.                                                       *)
(***************************************************************************)
Schemes == {"http", "https", "ftp", ""}

\* the address range of each IP literal of the model
AddrRange(text) ==
    CASE text = "8.8.8.8" -> "public"
      [] text = "10.0.0.1" -> "private"
      [] text = "127.0.0.1" -> "loopback"
      [] text = "::1" -> "loopback"
      [] text = "169.254.169.254" -> "link_local"
      [] text = "224.0.0.1" -> "multicast"
      [] text = "240.0.0.1" -> "reserved"
      [] text = "0.0.0.0" -> "unspecified"
      [] OTHER -> "none"

\* ipaddress.ip_address(host) does not raise ValueError: a dotted quad or an
\* IPv6 address. "127.1" is not one.
IsIPLiteral(text) == AddrRange(text) # "none"

\* the is_* properties of ipaddress that hold for the address
ip_flags(text) ==
    CASE AddrRange(text) = "private" -> {"is_private"}
      [] AddrRange(text) = "loopback" -> {"is_private", "is_loopback"}
      [] AddrRange(text) = "link_local" -> {"is_private", "is_link_local"}
      [] AddrRange(text) = "multicast" -> {"is_multicast"}
      [] AddrRange(text) = "reserved" -> {"is_private", "is_reserved"}
      [] AddrRange(text) = "unspecified" -> {"is_private", "is_unspecified"}
      [] OTHER -> {}

HostTexts ==
    {"", "example.com", "munchen.de", "label-of-64-chars.com", "127.1",
     "8.8.8.8", "10.0.0.1", "127.0.0.1", "::1", "169.254.169.254",
     "224.0.0.1", "240.0.0.1", "0.0.0.0"}

\* the hosts a URL string can hold: munchen.de stands for a host with a
\* non-ASCII letter, written in unicode or in its xn-- form
Hosts ==
    {[text |-> t, form |-> "ascii"] : t \in HostTexts \ {"munchen.de"}}
        \cup {[text |-> "munchen.de", form |-> f] : f \in {"unicode", "ace"}}

URLs == [scheme : Schemes, host : Hosts]

\* httpx.URL.host: the host with an xn-- name decoded
url_host(url) ==
    IF url.host.form = "ace" THEN [url.host EXCEPT !.form = "unicode"]
    ELSE url.host

\* host_is_private_literal(host)
host_is_private_literal(host) ==
    /\ IsIPLiteral(host.text)
    /\ ip_flags(host.text) \cap
         {"is_private", "is_loopback", "is_link_local", "is_multicast",
          "is_unspecified", "is_reserved"} # {}

\* normalize_idna_host: host.encode("idna").decode("ascii"); a label longer
\* than 63 characters makes the codec raise UnicodeError and the host is
\* returned as it is
normalize_idna_host(host) ==
    IF host.text = "label-of-64-chars.com" THEN host
    ELSE IF host.form = "unicode" THEN [host EXCEPT !.form = "ace"]
    ELSE host

NoURL == [none |-> TRUE]

\* a verify_http_url that keeps the scheme of an http URL
verify_http_url_KeepsHttp(newurl) ==
    IF newurl.scheme \notin {"http", "https"}
    THEN [err |-> "URLRejectedError", url |-> NoURL]
    ELSE IF url_host(newurl).text = ""
    THEN [err |-> None, url |-> newurl]
    ELSE IF host_is_private_literal(url_host(newurl))
    THEN [err |-> "URLRejectedError", url |-> NoURL]
    ELSE [err |-> None,
          url |-> [newurl EXCEPT !.host = normalize_idna_host(url_host(newurl))]]

\* verify_http_url(newurl): the URL returned, or the error raised
verify_http_url(newurl) ==
    LET url == IF newurl.scheme = "http" THEN [newurl EXCEPT !.scheme = "https"]
               ELSE newurl
    IN  IF url.scheme # "https"
        THEN [err |-> "URLRejectedError", url |-> NoURL]
        ELSE IF url_host(url).text = ""
        THEN [err |-> None, url |-> url]
        ELSE IF host_is_private_literal(url_host(url))
        THEN [err |-> "URLRejectedError", url |-> NoURL]
        ELSE [err |-> None,
              url |-> [url EXCEPT !.host = normalize_idna_host(url_host(url))]]

NoCall == [none |-> TRUE]

IdleTransport ==
    /\ tr_pc = "idle"
    /\ tr_url = NoURL
    /\ tr_hops = 0
    /\ tr_forwarded = <<>>
    /\ tr_last = NoCall

\* the client sends a request for any URL
InitTransport ==
    /\ tr_pc = "request"
    /\ tr_url \in URLs
    /\ tr_hops = 0
    /\ tr_forwarded = <<>>
    /\ tr_last = NoCall

\* handle_async_request: the URL is verified and replaced, then the request
\* goes to the inner transport; URLRejectedError leaves before that
HandleRequest ==
    /\ tr_pc = "request"
    /\ LET res == verify_http_url(tr_url)
       IN  /\ tr_last' = [none |-> FALSE, arg |-> tr_url, err |-> res.err,
                          url |-> res.url]
           /\ IF res.err # None
              THEN /\ tr_pc' = "rejected"
                   /\ UNCHANGED <<tr_url, tr_forwarded>>
              ELSE /\ tr_pc' = "inner"
                   /\ tr_url' = res.url
                   /\ tr_forwarded' = Append(tr_forwarded, res.url)
    /\ UNCHANGED tr_hops

\* the inner transport answers with a redirect to `location`; the client
\* (follow_redirects) sends the next request through the transport
InnerRedirects(location) ==
    /\ tr_pc = "inner"
    /\ tr_hops < MaxHops
    /\ tr_pc' = "request"
    /\ tr_url' = location
    /\ tr_hops' = tr_hops + 1
    /\ UNCHANGED <<tr_forwarded, tr_last>>

\* the inner transport answers with a final response, or raises
InnerAnswers ==
    /\ tr_pc = "inner"
    /\ tr_pc' = "done"
    /\ UNCHANGED <<tr_url, tr_hops, tr_forwarded, tr_last>>

(***************************************************************************)
(* Properties of the transport.                                            *)
(***************************************************************************)
\* an IP literal in a private, loopback, link-local, multicast, reserved or
\* unspecified range
BlockedLiteral(host) ==
    AddrRange(host.text) \in
        {"private", "loopback", "link_local", "multicast", "reserved",
         "unspecified"}

\* C12: every URL forwarded to the inner transport (the first request and
\* every redirect hop) has scheme https and a host that is no IP literal of a
\* blocked range; and verify_http_url raises URLRejectedError for a scheme
\* other than http/https and for such a host, and otherwise returns the URL
\* with scheme https and the host in its ASCII-compatible form.
C12_ForwardedUrlsVerified ==
    /\ \A i \in 1..Len(tr_forwarded) :
          /\ tr_forwarded[i].scheme = "https"
          /\ ~BlockedLiteral(tr_forwarded[i].host)
          /\ tr_forwarded[i].host.form # "unicode"
    /\ ~tr_last.none =>
          IF \/ tr_last.arg.scheme \notin {"http", "https"}
             \/ BlockedLiteral(tr_last.arg.host)
          THEN tr_last.err = "URLRejectedError"
          ELSE /\ tr_last.err = None
               /\ tr_last.url.scheme = "https"
               /\ tr_last.url.host.text = tr_last.arg.host.text
               /\ tr_last.url.host.form # "unicode"

\* C12 witness: two URLs were forwarded, the second a redirect to a unicode
\* host sent on in its xn-- form, and a further redirect to an http loopback
\* literal was rejected.
C12_Witness ==
    /\ tr_pc = "rejected"
    /\ Len(tr_forwarded) = 2
    /\ tr_forwarded[2].host = [text |-> "munchen.de", form |-> "ace"]
    /\ tr_last.arg.scheme = "http"
    /\ tr_last.arg.host.text = "127.0.0.1"

(***************************************************************************)
(* WMNCollection.iter_site_json and producer, destructive or not, over one *)
(* collection; a collection is iterated up to MaxPasses times.             *)
(***************************************************************************)
IterKinds == RecordKinds

IterModes == {"iter_site_json", "producer"}

IdleIter ==
    /\ it_pc = "idle"
    /\ it_mode = None
    /\ it_discard = FALSE
    /\ it_idx = 0
    /\ it_out = <<>>
    /\ it_before = <<>>
    /\ it_passes = <<>>

\* the collection the iterations run over
InitIterColl ==
    /\ \E n \in 0..MaxIterSites : \E kinds \in [1..n -> IterKinds] :
          sites = [i \in 1..n |-> MkRecord(i, kinds[i])]
    /\ sites0 = sites
    /\ rule_set \in RuleSets
    /\ ck_pc = "idle"
    /\ ck_size = 0
    /\ chunk = <<>>
    /\ chunks = <<>>

\* iter_site_json(auto_discard=discard) or producer(auto_discard=discard) is
\* called and its generator started
IterCall(mode, discard) ==
    /\ it_pc \in {"idle", "done"}
    /\ ck_pc = "idle"
    /\ Len(it_passes) < MaxPasses
    /\ it_pc' = "iter"
    /\ it_mode' = mode
    /\ it_discard' = discard
    /\ it_idx' = 1
    /\ it_out' = <<>>
    /\ it_before' = sites
    /\ UNCHANGED <<it_passes, collVars>>

\* a producer that lets the error of an invalid record out
ProducerOutcome_RaisesOnInvalid(result) ==
    [yields |-> ~result.site.none, raises |-> result.site.none]

\* producer, lines 191-195: a result without a site is logged and skipped
ProducerOutcome(result) ==
    [yields |-> ~result.site.none, raises |-> FALSE]

HasNext == IF it_discard THEN sites # <<>> ELSE it_idx <= Len(sites)

\* One turn of the iterator: _auto_discard_iterator pops the last record,
\* _basic_iterator takes the next one; a record the rule set filters is
\* passed over; iter_site_json yields the record, producer parses it
\* (try_parse_wmn_json pops the keys it reads from the very dict the
\* collection holds) and yields the site.
IterStep ==
    /\ it_pc = "iter"
    /\ HasNext
    /\ LET cur == IF it_discard THEN Last(sites) ELSE sites[it_idx]
           skipped == Filtered(rule_set, cur)
           parsed == it_mode = "producer" /\ ~skipped
           result == try_parse_wmn_json(cur)
           outcome == ProducerOutcome(result)
       IN  /\ sites' = IF it_discard THEN Front(sites)
                       ELSE IF parsed THEN [sites EXCEPT ![it_idx] = result.rec]
                       ELSE sites
           /\ it_idx' = IF it_discard THEN it_idx ELSE it_idx + 1
           /\ it_out' = IF skipped THEN it_out
                        ELSE IF it_mode = "iter_site_json" THEN Append(it_out, cur)
                        ELSE IF outcome.yields THEN Append(it_out, result.site)
                        ELSE it_out
           /\ it_pc' = IF parsed /\ outcome.raises THEN "raised" ELSE "iter"
    /\ UNCHANGED <<it_mode, it_discard, it_before, it_passes>>
    /\ UNCHANGED <<sites0, rule_set, ck_pc, ck_size, chunk, chunks>>

\* the iterator is exhausted: the pass is complete
IterEnd ==
    /\ it_pc = "iter"
    /\ ~HasNext
    /\ it_pc' = "done"
    /\ it_passes' = Append(it_passes,
                           [mode |-> it_mode, discard |-> it_discard,
                            out |-> it_out, before |-> it_before,
                            after |-> sites])
    /\ UNCHANGED <<it_mode, it_discard, it_idx, it_out, it_before, collVars>>

(***************************************************************************)
(* Properties of the iterators.                                            *)
(***************************************************************************)
SiteIds(seq) == {seq[i].id : i \in 1..Len(seq)}

\* C13: while producing or chunking, a record that lacks a required field or
\* carries an unknown field is skipped on its own: no exception leaves the
\* iteration, and the sites yielded are exactly the valid records the rule
\* set lets through, each once.
C13_InvalidRecordsSkipped ==
    /\ it_pc # "raised"
    /\ ck_pc # "raised"
    /\ (Len(it_passes) >= 1 /\ it_passes[1].mode = "producer") =>
          /\ SiteIds(it_passes[1].out) = KeptIds
          /\ Len(it_passes[1].out) = Cardinality(KeptIds)
    /\ ck_pc = "done" =>
          /\ SiteIds(Flatten(chunks)) = KeptIds
          /\ Len(Flatten(chunks)) = Cardinality(KeptIds)

\* C13 witness: a producer pass is complete over three records, the middle
\* one invalid, and it yielded the two around it.
C13_Witness ==
    /\ Len(it_passes) = 1
    /\ it_passes[1].mode = "producer"
    /\ Len(sites0) = 3
    /\ ~ValidRecord(sites0[2])
    /\ SiteIds(it_passes[1].out) = {1, 3}

\* the sites producer has yielded so far and in its complete passes, and the
\* sites chunkate has put in a chunk
YieldedSites ==
    (IF it_mode = "producer" THEN Range(it_out) ELSE {})
        \cup UNION {Range(it_passes[k].out) :
                       k \in {j \in 1..Len(it_passes) : it_passes[j].mode = "producer"}}
        \cup Range(chunk)
        \cup UNION {Range(chunks[k]) : k \in 1..Len(chunks)}

\* C22: every site producer or chunkate yields satisfies is_allowed for the
\* collection's rule set: no POST site under http_get_only, no site of an
\* excluded category or outside a non-empty include set, no protected site
\* under ignore_protected, and a required protection tag on every site when
\* some are required.
C22_YieldedSitesAllowed ==
    ~rule_set.none =>
        \A site \in YieldedSites :
            /\ is_allowed(rule_set, site)
            /\ rule_set.http_get_only => ~site.post_body
            /\ site.cat \notin rule_set.exclude_categories
            /\ rule_set.include_categories # {} =>
                  site.cat \in rule_set.include_categories
            /\ rule_set.ignore_protected => site.protection = {}
            /\ rule_set.require_protections_any_of # {} =>
                  \E p \in site.protection :
                      Lower(p) \in rule_set.require_protections_any_of

\* C22 witness: under a rule set that requires a protection tag, a complete
\* producer pass over three records yielded the protected one and passed
\* over a plain GET site and a POST site.
C22_Witness ==
    /\ ~rule_set.none
    /\ rule_set.require_protections_any_of # {}
    /\ Len(it_passes) = 1
    /\ it_passes[1].mode = "producer"
    /\ Len(it_passes[1].out) = 1
    /\ Len(sites0) = 3
    /\ \E i, j \in 1..3 :
          /\ "post_body" \in sites0[i].keys
          /\ sites0[j].protection = {} /\ ValidRecord(sites0[j])
          /\ "post_body" \notin sites0[j].keys

\* C16: a complete non-destructive pass of iter_site_json or of producer
\* leaves the collection with the same records, the same contents and the
\* same order, and a second non-destructive pass of the same kind yields the
\* same sequence as the first.
C16_NonDestructivePassPreserves ==
    /\ \A p \in 1..Len(it_passes) :
          ~it_passes[p].discard => it_passes[p].after = it_passes[p].before
    /\ \A p \in 1..(Len(it_passes) - 1) :
          (/\ ~it_passes[p].discard
           /\ ~it_passes[p + 1].discard
           /\ it_passes[p + 1].mode = it_passes[p].mode) =>
              it_passes[p + 1].out = it_passes[p].out

(***************************************************************************)
(* WMNRequest.from_site, load_body and get_http_stream.                    *)
(* A post_body template is None, "" or a text with the {account}           *)
(* placeholder; a body string is the template with the account put in,     *)
(* kept as the pair of both.                                               *)
(***************************************************************************)
\* Python values of the request: None, a JSON value, a byte string
PyNone == [py |-> "None"]

PostBodies == {None, "", "{account}", "null", "{\"u\":\"{account}\"}", "u={account}"}

Accounts == {"", "bob", "null", "7"}

HeaderSets ==
    {"none", "Content-Type: application/json",
     "content-type: Application/JSON; charset=utf-8",
     "Content-Type: text/plain", "Content-type: application/json"}

RequestSites == [post_body : PostBodies, headers : HeaderSets]

\* WhatsMyNameSite.method: "POST" if self.options.post_body else "GET"
site_method(site) ==
    IF site.post_body \notin {None, ""} THEN "POST" ELSE "GET"

\* WhatsMyNameSite.get_body: the template with {account} replaced
get_body(site, account) ==
    IF site.post_body \in {None, ""} THEN PyNone
    ELSE [py |-> "str", template |-> site.post_body, account |-> account]

\* the body string is the empty string
EmptyBody(body) ==
    body.py = "None" \/ (body.template = "{account}" /\ body.account = "")

\* WhatsMyNameSite.is_content_type_json: the header is looked up under
\* 'Content-Type' and 'content-type' and its value lowered
is_content_type_json(site) ==
    site.headers \in {"Content-Type: application/json",
                      "content-type: Application/JSON; charset=utf-8"}

\* json.loads(body_string): the value, or JSONDecodeError. The JSON text
\* null loads as Python's None.
json_loads(body) ==
    CASE body.template = "null" -> [ok |-> TRUE, value |-> PyNone]
      [] body.template = "{\"u\":\"{account}\"}" ->
            [ok |-> TRUE, value |-> [py |-> "dict", u |-> body.account]]
      [] body.template = "{account}" /\ body.account = "null" ->
            [ok |-> TRUE, value |-> PyNone]
      [] body.template = "{account}" /\ body.account = "7" ->
            [ok |-> TRUE, value |-> [py |-> "int", n |-> 7]]
      [] OTHER -> [ok |-> FALSE, value |-> PyNone]

\* body_string.encode('utf-8')
Encoded(body) == [py |-> "bytes", of |-> body]

EmptyBytes == [py |-> "bytes", of |-> PyNone]

\* WMNRequest.load_body(body_string) on the request `parts`
load_body(parts, body) ==
    IF EmptyBody(body) THEN parts
    ELSE IF json_loads(body).ok
    THEN [parts EXCEPT !.json_payload = json_loads(body).value]
    ELSE [parts EXCEPT !.content_bytes = Encoded(body)]

\* WMNRequest.from_site(site, account)
from_site(site, account) ==
    LET parts == [method |-> site_method(site), json_payload |-> PyNone,
                  content_bytes |-> PyNone]
        body == get_body(site, account)
    IN  IF parts.method = "GET" THEN parts
        ELSE IF ~is_content_type_json(site)
        THEN [parts EXCEPT !.content_bytes =
                 IF EmptyBody(body) THEN EmptyBytes ELSE Encoded(body)]
        ELSE load_body(parts, body)

NoRequest == [none |-> TRUE]

IdleRequest ==
    /\ rq_pc = "idle"
    /\ rq_site = NoRequest
    /\ rq_account = ""
    /\ rq_req = NoRequest
    /\ rq_sent = PyNone

\* check_wmn_site is about to build the request of any site for any account
InitRequest ==
    /\ rq_pc = "called"
    /\ rq_site \in RequestSites
    /\ rq_account \in Accounts
    /\ rq_req = NoRequest
    /\ rq_sent = PyNone

\* line 238: request = WMNRequest.from_site(site, username)
BuildRequest ==
    /\ rq_pc = "called"
    /\ rq_req' = from_site(rq_site, rq_account)
    /\ rq_pc' = "built"
    /\ UNCHANGED <<rq_site, rq_account, rq_sent>>

\* get_http_stream: no body for GET, json= when json_payload is not None,
\* else content=content_bytes
GetHttpStream ==
    /\ rq_pc = "built"
    /\ rq_sent' = IF rq_req.method = "GET" THEN [kind |-> "none", value |-> PyNone]
                  ELSE IF rq_req.json_payload # PyNone
                  THEN [kind |-> "json", value |-> rq_req.json_payload]
                  ELSE [kind |-> "content", value |-> rq_req.content_bytes]
    /\ rq_pc' = "sent"
    /\ UNCHANGED <<rq_site, rq_account, rq_req>>

(***************************************************************************)
(* Properties of the request.                                              *)
(***************************************************************************)
\* C15: the request of a POST site carries exactly one of json_payload and
\* content_bytes, never both and never neither, and that of a GET site
\* neither; for a POST site with a JSON content type the payload is the JSON
\* value when the body with the account put in parses as JSON, and the raw
\* bytes when it does not.
C15_ExactlyOneBody ==
    rq_pc \in {"built", "sent"} =>
        /\ rq_req.method = "GET" =>
              rq_req.json_payload = PyNone /\ rq_req.content_bytes = PyNone
        /\ rq_req.method = "POST" =>
              (rq_req.json_payload = PyNone) # (rq_req.content_bytes = PyNone)
        /\ (rq_req.method = "POST" /\ is_content_type_json(rq_site)) =>
              LET body == get_body(rq_site, rq_account)
              IN  IF ~EmptyBody(body) /\ json_loads(body).ok
                  THEN rq_req.content_bytes = PyNone
                  ELSE rq_req.content_bytes # PyNone

(***************************************************************************)
(* UsernameScanner.__init__ with any arguments, followed by a              *)
(* check_username over an empty collection.                                *)
(***************************************************************************)
\* an argument of the constructor: left out (the default is bound) or given
CtorArgs(default) ==
    {[omitted |-> TRUE, value |-> default]}
        \cup {[omitted |-> FALSE, value |-> v] : v \in -1..MaxGiven}

NoArgs == [none |-> TRUE]

IdleCtor ==
    /\ ct_pc = "idle"
    /\ ct_args = NoArgs

InitCtor ==
    /\ ct_pc = "new"
    /\ ct_args \in [chunk_size : CtorArgs(DefaultChunkSize),
                    concurrency_per_process : CtorArgs(DefaultConc)]

\* a constructor that stores its arguments as they are
Construct_NoFloor ==
    /\ ct_pc = "new"
    /\ ct_pc' = "built"
    /\ sc_chunk_size' = ct_args.chunk_size.value
    /\ sc_conc' = ct_args.concurrency_per_process.value
    /\ sc_cpu' \in CpuCounts
    /\ sc_pc' = "called"
    /\ UNCHANGED <<ct_args, sc_procs, sc_success_only, sc_calls, fut, pool_broken,
                   sc_done_q, sc_all, sc_ret>>

\* lines 391-392 of __init__: both sizes are floored at 2; then
\* check_username is called on a machine with any CPU count
Construct ==
    /\ ct_pc = "new"
    /\ ct_pc' = "built"
    /\ sc_chunk_size' = Max(MinChunkSize, ct_args.chunk_size.value)
    /\ sc_conc' = Max(MinConc, ct_args.concurrency_per_process.value)
    /\ sc_cpu' \in CpuCounts
    /\ sc_pc' = "called"
    /\ UNCHANGED <<ct_args, sc_procs, sc_success_only, sc_calls, fut, pool_broken,
                   sc_done_q, sc_all, sc_ret>>

\* C20: for every value passed to the constructor (zero and negative ones
\* included) the effective chunk size and the effective per-process
\* concurrency are the value floored at 2, and stay so while the scanner is
\* used; left out, they are 100 and 50.
C20_SizesFloored ==
    ct_pc = "built" =>
        /\ sc_chunk_size >= 2
        /\ sc_conc >= 2
        /\ ct_args.chunk_size.value >= 2 => sc_chunk_size = ct_args.chunk_size.value
        /\ ct_args.chunk_size.value < 2 => sc_chunk_size = 2
        /\ ct_args.concurrency_per_process.value >= 2 =>
              sc_conc = ct_args.concurrency_per_process.value
        /\ ct_args.concurrency_per_process.value < 2 => sc_conc = 2
        /\ ct_args.chunk_size.omitted => sc_chunk_size = 100
        /\ ct_args.concurrency_per_process.omitted => sc_conc = 50

\* C20 witness: a scanner built with chunk_size = -1 and the default
\* concurrency has run a scan to its end with sizes 2 and 50.
C20_Witness ==
    /\ ct_pc = "built"
    /\ sc_pc = "returned"
    /\ ~ct_args.chunk_size.omitted /\ ct_args.chunk_size.value = -1
    /\ ct_args.concurrency_per_process.omitted
    /\ sc_chunk_size = 2
    /\ sc_conc = 50

(***************************************************************************)
(* normalize_url: strip, percent-encode, substitute.                       *)
(***************************************************************************)
\* the characters of the account names and of the strip rules of the model
AccountChars == {"a", ".", "-", " "}

StripChars == {".", "-", " "}

Strings(chars, n) == UNION {[1..k -> chars] : k \in 0..n}

\* str.replace(old, ''): the occurrences of the substring `old`, found from
\* left to right without overlap, are removed
RECURSIVE Removed(_, _)
Removed(str, old) ==
    IF Len(str) < Len(old) THEN str
    ELSE IF SubSeq(str, 1, Len(old)) = old
    THEN Removed(SubSeq(str, Len(old) + 1, Len(str)), old)
    ELSE <<Head(str)>> \o Removed(Tail(str), old)

\* urllib.parse.quote(username, safe=''): letters, digits and "_.-~" stay,
\* any other character becomes %XX
RECURSIVE quote(_)
quote(str) ==
    IF str = <<>> THEN <<>>
    ELSE (IF Head(str) = " " THEN <<"%", "2", "0">> ELSE <<Head(str)>>)
             \o quote(Tail(str))

\* site.entry.uri_check of the model: a path and the placeholder
uri_check == <<"/", "u", "/", "{account}">>

RECURSIVE Substitute(_, _)
Substitute(template, encoded) ==
    IF template = <<>> THEN <<>>
    ELSE (IF Head(template) = "{account}" THEN encoded ELSE <<Head(template)>>)
             \o Substitute(Tail(template), encoded)

\* normalize_url(site, account)
normalize_url(strip_bad_char, account) ==
    LET username == IF strip_bad_char # <<>>
                    THEN Removed(account, strip_bad_char)
                    ELSE account
    IN  Substitute(uri_check, quote(username))

IdleUrl ==
    /\ nu_pc = "idle"
    /\ nu_account = <<>>
    /\ nu_strip = <<>>
    /\ nu_url = <<>>

InitUrl ==
    /\ nu_pc = "called"
    /\ nu_account \in Strings(AccountChars, MaxAccountLen)
    /\ nu_strip \in Strings(StripChars, MaxStripLen)
    /\ nu_url = <<>>

\* site.get_url(account), line 99 of from_site
GetUrl ==
    /\ nu_pc = "called"
    /\ nu_url' = normalize_url(nu_strip, nu_account)
    /\ nu_pc' = "done"
    /\ UNCHANGED <<nu_account, nu_strip>>

\* C28: when the site configures bad characters to strip, the identifier
\* substituted into the URL holds none of them, for every account and every
\* rule, rules of more than one character included.
C28_BadCharsStripped ==
    (nu_pc = "done" /\ nu_strip # <<>>) =>
        \A c \in Range(nu_strip) : c \notin Range(nu_url)

(***************************************************************************)
(* The two filters of WMNRuleSet on the same record.                       *)
(***************************************************************************)
\* every WMNRuleSet over the categories and tags of the model
FilterRuleSets ==
    [none : {FALSE},
     include_categories : {{}, {"email"}},
     exclude_categories : {{}, {"email"}},
     any_known_accounts : BOOLEAN,
     require_protections_any_of : {{}, {"captcha"}},
     http_get_only : BOOLEAN,
     ignore_protected : BOOLEAN]

\* raw records: with or without post_body, known and protection, of either
\* category, complete, lacking a required field or carrying an unknown one
FilterRecords ==
    {[id |-> 1,
      keys |-> (AllEntryKeys \ missing) \cup optional \cup extra,
      cat |-> cat,
      protection |-> IF "protection" \in optional THEN {"Captcha"} ELSE {}] :
        missing \in {{}, {"e_code"}},
        optional \in SUBSET {"post_body", "known", "protection"},
        extra \in {{}, {"bogus"}},
        cat \in {"social", "email"}}

IdleFilter ==
    /\ fl_pc = "idle"
    /\ fl_rs = NoRuleSet
    /\ fl_rec = NoSite
    /\ fl_pre = FALSE
    /\ fl_site = NoSite
    /\ fl_post = FALSE

InitFilter ==
    /\ fl_pc = "called"
    /\ fl_rs \in FilterRuleSets
    /\ fl_rec \in FilterRecords
    /\ fl_pre = FALSE
    /\ fl_site = NoSite
    /\ fl_post = FALSE

\* rule_set.pre_filter(site_json) on the raw record
PreFilter ==
    /\ fl_pc = "called"
    /\ fl_pre' = pre_filter(fl_rs, fl_rec)
    /\ fl_pc' = "prefiltered"
    /\ UNCHANGED <<fl_rs, fl_rec, fl_site, fl_post>>

\* try_parse_wmn_json on the record, then rule_set.is_allowed(site) on the
\* site if there is one
PostFilter ==
    /\ fl_pc = "prefiltered"
    /\ LET result == try_parse_wmn_json(fl_rec)
       IN  /\ fl_site' = result.site
           /\ fl_post' = IF result.site.none THEN FALSE
                         ELSE is_allowed(fl_rs, result.site)
    /\ fl_pc' = "done"
    /\ UNCHANGED <<fl_rs, fl_rec, fl_pre>>

\* C29: the typed filter is at least as strict as the raw one: for every
\* rule set (require-known-accounts included) and every raw record that
\* parses, if pre_filter rejects the record then is_allowed rejects the
\* site.
C29_PostFilterAtLeastAsStrict ==
    (fl_pc = "done" /\ ~fl_site.none /\ ~fl_pre) => ~fl_post

(***************************************************************************)
(* Specifications.                                                         *)
(***************************************************************************)
InitCollOnly == InitColl /\ IdleReader /\ IdleProbe /\ IdleRetry /\ IdleWorker /\ IdleScan /\ IdleTransport /\ IdleIter /\ IdleRequest /\ IdleCtor /\ IdleUrl /\ IdleFilter

NextColl ==
    \/ \E size \in -1..MaxChunkSize :
          ChunkateCall(size) /\ UNCHANGED <<readerVars, probeVars, retryVars, workerVars, scanVars, transportVars, iterVars, requestVars, ctorVars, urlVars, filterVars>>
    \/ ChunkateStep /\ UNCHANGED <<readerVars, probeVars, retryVars, workerVars, scanVars, transportVars, iterVars, requestVars, ctorVars, urlVars, filterVars>>
    \/ ChunkateFinish /\ UNCHANGED <<readerVars, probeVars, retryVars, workerVars, scanVars, transportVars, iterVars, requestVars, ctorVars, urlVars, filterVars>>

SpecColl == InitCollOnly /\ [][NextColl]_vars

InitReaderOnly == InitReader /\ IdleColl /\ IdleProbe /\ IdleRetry /\ IdleWorker /\ IdleScan /\ IdleTransport /\ IdleIter /\ IdleRequest /\ IdleCtor /\ IdleUrl /\ IdleFilter

NextReader ==
    \/ ReadChunk /\ UNCHANGED <<collVars, probeVars, retryVars, workerVars, scanVars, transportVars, iterVars, requestVars, ctorVars, urlVars, filterVars>>
    \/ EndOfStream /\ UNCHANGED <<collVars, probeVars, retryVars, workerVars, scanVars, transportVars, iterVars, requestVars, ctorVars, urlVars, filterVars>>
    \/ \E err \in StreamErrors :
          StreamRaises(err) /\ UNCHANGED <<collVars, probeVars, retryVars, workerVars, scanVars, transportVars, iterVars, requestVars, ctorVars, urlVars, filterVars>>

SpecReader == InitReaderOnly /\ [][NextReader]_vars

InitProbeOnly == InitProbe /\ IdleReader /\ IdleColl /\ IdleRetry /\ IdleWorker /\ IdleScan /\ IdleTransport /\ IdleIter /\ IdleRequest /\ IdleCtor /\ IdleUrl /\ IdleFilter

NextProbe ==
    \/ /\ pb_pc = "built"
       /\ \E status \in StatusCodes, body \in ProbeBodies :
          /\ OpenResponse(status, body)
          /\ UNCHANGED <<collVars, retryVars, workerVars, scanVars, transportVars, iterVars, requestVars, ctorVars, urlVars, filterVars>>
    \/ \E err \in SendErrors : OpenRaises(err) /\ UNCHANGED <<collVars, retryVars, workerVars, scanVars, transportVars, iterVars, requestVars, ctorVars, urlVars, filterVars>>
    \/ StatusGate /\ UNCHANGED <<collVars, retryVars, workerVars, scanVars, transportVars, iterVars, requestVars, ctorVars, urlVars, filterVars>>
    \/ pb_pc = "streaming" /\ ReadChunk /\ UNCHANGED <<collVars, probeVars, retryVars, workerVars, scanVars, transportVars, iterVars, requestVars, ctorVars, urlVars, filterVars>>
    \/ pb_pc = "streaming" /\ EndOfStream /\ UNCHANGED <<collVars, probeVars, retryVars, workerVars, scanVars, transportVars, iterVars, requestVars, ctorVars, urlVars, filterVars>>
    \/ \E err \in ReadErrors :
          /\ pb_pc = "streaming"
          /\ StreamRaises(err)
          /\ UNCHANGED <<collVars, probeVars, retryVars, workerVars, scanVars, transportVars, iterVars, requestVars, ctorVars, urlVars, filterVars>>
    \/ StreamReturned /\ UNCHANGED <<collVars, retryVars, workerVars, scanVars, transportVars, iterVars, requestVars, ctorVars, urlVars, filterVars>>
    \/ StreamFailed /\ UNCHANGED <<collVars, retryVars, workerVars, scanVars, transportVars, iterVars, requestVars, ctorVars, urlVars, filterVars>>

SpecProbe == InitProbeOnly /\ [][NextProbe]_vars

InitRetryOnly == InitRetry /\ IdleColl /\ IdleReader /\ IdleProbe /\ IdleWorker /\ IdleScan /\ IdleTransport /\ IdleIter /\ IdleRequest /\ IdleCtor /\ IdleUrl /\ IdleFilter

NextRetry ==
    \/ CallFunc /\ UNCHANGED <<collVars, readerVars, probeVars, workerVars, scanVars, transportVars, iterVars, requestVars, ctorVars, urlVars, filterVars>>
    \/ BackoffDone /\ UNCHANGED <<collVars, readerVars, probeVars, workerVars, scanVars, transportVars, iterVars, requestVars, ctorVars, urlVars, filterVars>>

SpecRetry == InitRetryOnly /\ [][NextRetry]_vars

InitWorkerOnly == InitWorker /\ IdleColl /\ IdleReader /\ IdleProbe /\ IdleRetry /\ IdleScan /\ IdleTransport /\ IdleIter /\ IdleRequest /\ IdleCtor /\ IdleUrl /\ IdleFilter

NextWorker ==
    \/ \E t \in 1..MaxTasks :
          TaskAcquire(t) /\ UNCHANGED <<collVars, readerVars, probeVars, retryVars, scanVars, transportVars, iterVars, requestVars, ctorVars, urlVars, filterVars>>
    \/ \E t \in 1..MaxTasks :
          TaskResume(t) /\ UNCHANGED <<collVars, readerVars, probeVars, retryVars, scanVars, transportVars, iterVars, requestVars, ctorVars, urlVars, filterVars>>
    \/ \E t \in 1..MaxTasks, outcome \in Outcomes, success \in BOOLEAN :
          /\ TaskAttempt(t, outcome, success)
          /\ UNCHANGED <<collVars, readerVars, probeVars, retryVars, scanVars, transportVars, iterVars, requestVars, ctorVars, urlVars, filterVars>>
    \/ \E t \in 1..MaxTasks :
          TaskBackoffDone(t) /\ UNCHANGED <<collVars, readerVars, probeVars, retryVars, scanVars, transportVars, iterVars, requestVars, ctorVars, urlVars, filterVars>>
    \/ WorkerReturn /\ UNCHANGED <<collVars, readerVars, probeVars, retryVars, scanVars, transportVars, iterVars, requestVars, ctorVars, urlVars, filterVars>>

\* The event loop runs every task that can run, and every probe attempt and
\* every backoff sleep ends.
SpecWorker == InitWorkerOnly /\ [][NextWorker]_vars /\ WF_vars(NextWorker)

InitScanOnly ==
    InitScan /\ InitScanColl /\ IdleReader /\ IdleProbe /\ IdleRetry /\ IdleWorker /\ IdleTransport /\ IdleIter /\ IdleRequest /\ IdleCtor /\ IdleUrl /\ IdleFilter

NextScan ==
    \/ ScanStart /\ UNCHANGED <<readerVars, probeVars, retryVars, workerVars, transportVars, iterVars, requestVars, ctorVars, urlVars, filterVars>>
    \/ ScanSubmitStep /\ UNCHANGED <<readerVars, probeVars, retryVars, workerVars, transportVars, iterVars, requestVars, ctorVars, urlVars, filterVars>>
    \/ ScanSubmitEnd /\ UNCHANGED <<readerVars, probeVars, retryVars, workerVars, transportVars, iterVars, requestVars, ctorVars, urlVars, filterVars>>
    \/ \E i \in 1..Len(fut) :
          WorkerStart(i) /\ UNCHANGED <<readerVars, probeVars, retryVars, workerVars, transportVars, iterVars, requestVars, ctorVars, urlVars, filterVars>>
    \/ \E i \in Running : \E results \in WorkerResults(chunks[i]) :
          /\ WorkerDone(i, results)
          /\ UNCHANGED <<readerVars, probeVars, retryVars, workerVars, transportVars, iterVars, requestVars, ctorVars, urlVars, filterVars>>
    \/ \E i \in 1..Len(fut) :
          WorkerRaises(i) /\ UNCHANGED <<readerVars, probeVars, retryVars, workerVars, transportVars, iterVars, requestVars, ctorVars, urlVars, filterVars>>
    \/ \E i \in 1..Len(fut) :
          WorkerCrash(i) /\ UNCHANGED <<readerVars, probeVars, retryVars, workerVars, transportVars, iterVars, requestVars, ctorVars, urlVars, filterVars>>
    \/ Collect /\ UNCHANGED <<readerVars, probeVars, retryVars, workerVars, transportVars, iterVars, requestVars, ctorVars, urlVars, filterVars>>
    \/ ScanReturn /\ UNCHANGED <<readerVars, probeVars, retryVars, workerVars, transportVars, iterVars, requestVars, ctorVars, urlVars, filterVars>>
    \/ ScanAgain /\ UNCHANGED <<readerVars, probeVars, retryVars, workerVars, transportVars, iterVars, requestVars, ctorVars, urlVars, filterVars>>

SpecScan == InitScanOnly /\ [][NextScan]_vars

InitTransportOnly == InitTransport /\ IdleColl /\ IdleReader /\ IdleProbe /\ IdleRetry /\ IdleWorker /\ IdleScan /\ IdleIter /\ IdleRequest /\ IdleCtor /\ IdleUrl /\ IdleFilter

NextTransport ==
    \/ HandleRequest /\ UNCHANGED <<collVars, readerVars, probeVars, retryVars, workerVars, scanVars, iterVars, requestVars, ctorVars, urlVars, filterVars>>
    \/ \E location \in URLs :
          /\ InnerRedirects(location)
          /\ UNCHANGED <<collVars, readerVars, probeVars, retryVars, workerVars, scanVars, iterVars, requestVars, ctorVars, urlVars, filterVars>>
    \/ InnerAnswers /\ UNCHANGED <<collVars, readerVars, probeVars, retryVars, workerVars, scanVars, iterVars, requestVars, ctorVars, urlVars, filterVars>>

SpecTransport == InitTransportOnly /\ [][NextTransport]_vars

InitIterOnly ==
    InitIterColl /\ IdleIter /\ IdleReader /\ IdleProbe /\ IdleRetry /\ IdleWorker /\ IdleScan /\ IdleTransport /\ IdleRequest /\ IdleCtor /\ IdleUrl /\ IdleFilter

NextIter ==
    \/ \E mode \in IterModes, discard \in BOOLEAN :
          /\ IterCall(mode, discard)
          /\ UNCHANGED <<readerVars, probeVars, retryVars, workerVars, scanVars, transportVars, requestVars, ctorVars, urlVars, filterVars>>
    \/ IterStep /\ UNCHANGED <<readerVars, probeVars, retryVars, workerVars, scanVars, transportVars, requestVars, ctorVars, urlVars, filterVars>>
    \/ IterEnd /\ UNCHANGED <<readerVars, probeVars, retryVars, workerVars, scanVars, transportVars, requestVars, ctorVars, urlVars, filterVars>>
    \/ \E size \in 1..MaxChunkSize :
          /\ it_pc = "idle"
          /\ ChunkateCall(size)
          /\ UNCHANGED <<readerVars, probeVars, retryVars, workerVars, scanVars, transportVars, iterVars, requestVars, ctorVars, urlVars, filterVars>>
    \/ ChunkateStep /\ UNCHANGED <<readerVars, probeVars, retryVars, workerVars, scanVars, transportVars, iterVars, requestVars, ctorVars, urlVars, filterVars>>
    \/ ChunkateFinish /\ UNCHANGED <<readerVars, probeVars, retryVars, workerVars, scanVars, transportVars, iterVars, requestVars, ctorVars, urlVars, filterVars>>

SpecIter == InitIterOnly /\ [][NextIter]_vars

InitRequestOnly ==
    InitRequest /\ IdleColl /\ IdleReader /\ IdleProbe /\ IdleRetry /\ IdleWorker /\ IdleScan /\ IdleTransport /\ IdleIter /\ IdleCtor /\ IdleUrl /\ IdleFilter

NextRequest ==
    \/ BuildRequest /\ UNCHANGED <<collVars, readerVars, probeVars, retryVars, workerVars, scanVars, transportVars, iterVars, ctorVars, urlVars, filterVars>>
    \/ GetHttpStream /\ UNCHANGED <<collVars, readerVars, probeVars, retryVars, workerVars, scanVars, transportVars, iterVars, ctorVars, urlVars, filterVars>>

SpecRequest == InitRequestOnly /\ [][NextRequest]_vars

InitCtorOnly ==
    InitCtor /\ IdleScan /\ IdleColl /\ IdleReader /\ IdleProbe /\ IdleRetry /\ IdleWorker /\ IdleTransport /\ IdleIter /\ IdleRequest /\ IdleUrl /\ IdleFilter

NextCtor ==
    \/ Construct /\ UNCHANGED <<collVars, readerVars, probeVars, retryVars, workerVars, transportVars, iterVars, requestVars, urlVars, filterVars>>
    \/ ScanStart /\ UNCHANGED <<readerVars, probeVars, retryVars, workerVars, transportVars, iterVars, requestVars, ctorVars, urlVars, filterVars>>
    \/ ScanSubmitEnd /\ UNCHANGED <<readerVars, probeVars, retryVars, workerVars, transportVars, iterVars, requestVars, ctorVars, urlVars, filterVars>>
    \/ ScanReturn /\ UNCHANGED <<readerVars, probeVars, retryVars, workerVars, transportVars, iterVars, requestVars, ctorVars, urlVars, filterVars>>

SpecCtor == InitCtorOnly /\ [][NextCtor]_vars

InitRetryClassesOnly ==
    InitRetryClasses /\ IdleColl /\ IdleReader /\ IdleProbe /\ IdleWorker /\ IdleScan /\ IdleTransport /\ IdleIter /\ IdleRequest /\ IdleCtor /\ IdleUrl /\ IdleFilter

SpecRetryClasses == InitRetryClassesOnly /\ [][NextRetry]_vars

InitUrlOnly ==
    InitUrl /\ IdleColl /\ IdleReader /\ IdleProbe /\ IdleRetry /\ IdleWorker /\ IdleScan /\ IdleTransport /\ IdleIter /\ IdleRequest /\ IdleCtor /\ IdleFilter

NextUrl ==
    \/ GetUrl /\ UNCHANGED <<collVars, readerVars, probeVars, retryVars, workerVars, scanVars, transportVars, iterVars, requestVars, ctorVars, filterVars>>

SpecUrl == InitUrlOnly /\ [][NextUrl]_vars

InitFilterOnly ==
    InitFilter /\ IdleColl /\ IdleReader /\ IdleProbe /\ IdleRetry /\ IdleWorker /\ IdleScan /\ IdleTransport /\ IdleIter /\ IdleRequest /\ IdleCtor /\ IdleUrl

NextFilter ==
    \/ PreFilter /\ UNCHANGED <<collVars, readerVars, probeVars, retryVars, workerVars, scanVars, transportVars, iterVars, requestVars, ctorVars, urlVars>>
    \/ PostFilter /\ UNCHANGED <<collVars, readerVars, probeVars, retryVars, workerVars, scanVars, transportVars, iterVars, requestVars, ctorVars, urlVars>>

SpecFilter == InitFilterOnly /\ [][NextFilter]_vars

====
